---- MODULE Spec2Model ----
(***************************************************************************)
(* State-machine model of plugin-fair: the wallet provider                 *)
(* (src/providers/wallet.ts), the chain registry                           *)
(* (src/config/pluginConfig.ts) and the swap and transfer executors        *)
(* (src/actions/swap.ts, src/actions/transfer.ts).                         *)
(*                                                                         *)
(* One caller issues one operation at a time.  Every `await` on an         *)
(* external collaborator (contract read, encryption, broadcast, receipt    *)
(* wait) is one action whose outcome is chosen nondeterministically.       *)
(* Strings are TLA+ strings; amounts on chain are integers (bigint).       *)
(* Slippage is held in basis points (percent * 100).                       *)
(***************************************************************************)
EXTENDS Integers, Sequences, FiniteSets, TLC

(***************************************************************************)
(* Bounds of the model                                                     *)
(***************************************************************************)
\* token decimals returned by the external decimals() read: 1..MaxDecimals
MaxDecimals == 2
\* largest allowance the external allowance() read returns
MaxAllowance == 150
\* largest quoted output the external getAmountsOut() read returns
MaxAmountOut == 10000
\* the largest raw balance an account or a token contract reports
MaxBalance == 1500

(***************************************************************************)
(* String helpers (JavaScript String methods)                              *)
(***************************************************************************)
CharAt(s, i) == SubSeq(s, i, i)

UpperChars == <<"A","B","C","D","E","F","G","H","I","J","K","L","M",
                "N","O","P","Q","R","S","T","U","V","W","X","Y","Z">>
LowerChars == <<"a","b","c","d","e","f","g","h","i","j","k","l","m",
                "n","o","p","q","r","s","t","u","v","w","x","y","z">>

LowerChar(c) ==
    IF \E i \in 1..26 : UpperChars[i] = c
    THEN LowerChars[CHOOSE i \in 1..26 : UpperChars[i] = c]
    ELSE c

RECURSIVE toLowerCase(_)
toLowerCase(s) ==
    IF Len(s) = 0 THEN ""
    ELSE LowerChar(CharAt(s, 1)) \o toLowerCase(Tail(s))

UpperChar(c) ==
    IF \E i \in 1..26 : LowerChars[i] = c
    THEN UpperChars[CHOOSE i \in 1..26 : LowerChars[i] = c]
    ELSE c

RECURSIVE toUpperCase(_)
toUpperCase(s) ==
    IF Len(s) = 0 THEN ""
    ELSE UpperChar(CharAt(s, 1)) \o toUpperCase(Tail(s))

RECURSIVE trim(_)
trim(s) ==
    IF Len(s) > 0 /\ CharAt(s, 1) = " " THEN trim(Tail(s))
    ELSE IF Len(s) > 0 /\ CharAt(s, Len(s)) = " " THEN trim(SubSeq(s, 1, Len(s) - 1))
    ELSE s

startsWith(s, p) == Len(s) >= Len(p) /\ SubSeq(s, 1, Len(p)) = p

includes(s, p) == \E i \in 1..(Len(s) - Len(p) + 1) : SubSeq(s, i, i + Len(p) - 1) = p

Digits == {"0","1","2","3","4","5","6","7","8","9"}

DigitVal(c) == CASE c = "0" -> 0 [] c = "1" -> 1 [] c = "2" -> 2 [] c = "3" -> 3
                 [] c = "4" -> 4 [] c = "5" -> 5 [] c = "6" -> 6 [] c = "7" -> 7
                 [] c = "8" -> 8 [] c = "9" -> 9

\* length of the longest prefix of s made of decimal digits
RECURSIVE DigitRun(_)
DigitRun(s) ==
    IF Len(s) > 0 /\ CharAt(s, 1) \in Digits THEN 1 + DigitRun(Tail(s)) ELSE 0

\* value of a string of decimal digits ("" is 0)
RECURSIVE DigitsValue(_)
DigitsValue(s) ==
    IF Len(s) = 0 THEN 0
    ELSE 10 * DigitsValue(SubSeq(s, 1, Len(s) - 1)) + DigitVal(CharAt(s, Len(s)))

RECURSIVE Pow10(_)
Pow10(n) == IF n = 0 THEN 1 ELSE 10 * Pow10(n - 1)

(***************************************************************************)
(* JavaScript parseFloat, reduced to what the validators compare: whether  *)
(* the result is NaN and, if not, its sign.  The longest prefix of the     *)
(* form [+-]digits[.digits] is parsed; without a digit the result is NaN.  *)
(***************************************************************************)
parseFloat(s) ==
    LET hasSign == Len(s) > 0 /\ CharAt(s, 1) \in {"-", "+"}
        neg     == Len(s) > 0 /\ CharAt(s, 1) = "-"
        body    == IF hasSign THEN Tail(s) ELSE s
        nInt    == DigitRun(body)
        rest    == SubSeq(body, nInt + 1, Len(body))
        hasDot  == Len(rest) > 0 /\ CharAt(rest, 1) = "."
        nFrac   == IF hasDot THEN DigitRun(Tail(rest)) ELSE 0
        intStr  == SubSeq(body, 1, nInt)
        fracStr == IF hasDot THEN SubSeq(rest, 2, nFrac + 1) ELSE ""
        isZero  == DigitsValue(intStr) = 0 /\ DigitsValue(fracStr) = 0
    IN  IF nInt + nFrac = 0 THEN [nan |-> TRUE, sign |-> 0]
        ELSE [nan |-> FALSE,
              sign |-> IF isZero THEN 0 ELSE IF neg THEN -1 ELSE 1]

(***************************************************************************)
(* viem parseUnits(value, decimals): value must have the form              *)
(* -?digits*.?digits*; the fraction is cut of trailing zeros, then padded  *)
(* with zeros to `decimals` digits, or rounded half up when it is longer;  *)
(* the result is BigInt(sign + integer + fraction).  A bigint is held as   *)
(* its decimal string (18-decimal amounts do not fit a machine integer);   *)
(* BigIntValue gives its value where arithmetic is done on it.             *)
(***************************************************************************)
RECURSIVE TrimTrailingZeros(_)
TrimTrailingZeros(s) ==
    IF Len(s) > 0 /\ CharAt(s, Len(s)) = "0"
    THEN TrimTrailingZeros(SubSeq(s, 1, Len(s) - 1)) ELSE s

RECURSIVE TrimLeadingZeros(_)
TrimLeadingZeros(s) ==
    IF Len(s) > 1 /\ CharAt(s, 1) = "0" THEN TrimLeadingZeros(Tail(s)) ELSE s

RECURSIVE padEnd(_, _, _)
padEnd(s, n, c) == IF Len(s) >= n THEN s ELSE padEnd(s \o c, n, c)

DigitChar(d) == CASE d = 0 -> "0" [] d = 1 -> "1" [] d = 2 -> "2" [] d = 3 -> "3"
                  [] d = 4 -> "4" [] d = 5 -> "5" [] d = 6 -> "6" [] d = 7 -> "7"
                  [] d = 8 -> "8" [] d = 9 -> "9"

\* bigint.toString() of a non-negative value
RECURSIVE NatToString(_)
NatToString(n) ==
    IF n < 10 THEN DigitChar(n)
    ELSE NatToString(n \div 10) \o DigitChar(n % 10)

\* BigInt(digits).toString(): "" and "000" read as 0
BigIntString(digits) == IF digits = "" THEN "0" ELSE TrimLeadingZeros(digits)

BigIntValue(digits) == DigitsValue(digits)

parseUnits(value, decimals) ==
    LET negative == Len(value) > 0 /\ CharAt(value, 1) = "-"
        body     == IF negative THEN Tail(value) ELSE value
        nInt     == DigitRun(body)
        rest     == SubSeq(body, nInt + 1, Len(body))
        hasDot   == Len(rest) > 0 /\ CharAt(rest, 1) = "."
        fracRaw  == IF hasDot THEN Tail(rest) ELSE ""
        valid    == DigitRun(fracRaw) = Len(fracRaw) /\ (hasDot \/ Len(rest) = 0)
        integer  == SubSeq(body, 1, nInt)
        fraction == TrimTrailingZeros(fracRaw)
        f        == Len(fraction)
        digits   == IF f <= decimals
                    THEN BigIntString(integer \o padEnd(fraction, decimals, "0"))
                    ELSE NatToString(
                           DigitsValue(integer) * Pow10(decimals)
                           + (DigitsValue(fraction) + 5 * Pow10(f - decimals - 1))
                             \div Pow10(f - decimals))
    IN  IF ~valid THEN [ok |-> FALSE, negative |-> FALSE, digits |-> "0"]
        ELSE [ok |-> TRUE, negative |-> negative /\ digits # "0", digits |-> digits]

\* viem parseEther(value) = parseUnits(value, 18)
parseEther(value) == parseUnits(value, 18)

(***************************************************************************)
(* Chain registry (src/types/index.ts, src/config/pluginConfig.ts).        *)
(* A configuration object is a function from the names of the fields it    *)
(* has to their values; a field it lacks reads as undefined.               *)
(***************************************************************************)
FAIR_TESTNET == "fair-testnet"
USER_CHAIN   == "user-chain"

DEFAULT_CHAIN_CONFIG ==
    [chainId         |-> "1328435889",
     nativeToken     |-> "FAIR",
     rpc             |-> "https://testnet-v1.skalenodes.com/v1/idealistic-dual-miram",
     explorerUrl     |-> "https://idealistic-dual-miram.explorer.testnet-v1.skalenodes.com/",
     tokens          |-> [USDC  |-> "0x389E0Ec8a0226E96528761b5954830727d892117",
                          SKL   |-> "0x2770Fc13a45be852Db0bB90A85D463C03CCa4fA6",
                          USDT  |-> "0x1D13d5697490C94f5Aa6f38bEEB4D6Ef4535a40c",
                          WFAIR |-> "0x4706C664ab84B7d6b9a7911cFB47b1f81335b208"],
     uniswapV2Router |-> "0x05BD86b5e9A6a8E838ef50cAEB96a502271349D0"]

DEFAULT_PLUGIN_CONFIG == [chains |-> (FAIR_TESTNET :> DEFAULT_CHAIN_CONFIG)]

\* {...a, ...b}: the fields of b override those of a
Spread(a, b) ==
    [k \in (DOMAIN a) \cup (DOMAIN b) |-> IF k \in DOMAIN b THEN b[k] ELSE a[k]]

\* x?.f read on an object that may be undefined (absent from m)
FieldOr(m, k, f, dflt) ==
    IF k \in DOMAIN m /\ f \in DOMAIN m[k] THEN m[k][f] ELSE dflt

\* the caller's overrides the provider may be constructed with
UserConfigs ==
    { [chains |-> <<>>],
      [chains |->
         (FAIR_TESTNET :> [tokens |-> [USDC |-> "0x00000000000000000000000000000000000000C1"]])
         @@ (USER_CHAIN :> [chainId     |-> "5",
                            nativeToken |-> "ETH",
                            rpc         |-> "http://localhost:8545",
                            tokens      |-> [WETH |-> "0x00000000000000000000000000000000000000E1",
                                             DAI  |-> "0x00000000000000000000000000000000000000D1"]])],
      [chains |-> (USER_CHAIN :> [chainId |-> "5", nativeToken |-> "ETH", rpc |-> ""])],
      [chains |-> (USER_CHAIN :> [nativeToken |-> "ETH", rpc |-> "http://localhost:8545"])],
      [chains |-> (FAIR_TESTNET :> [chainId |-> "  "])] }

\* PluginConfigManager constructor: merge of the defaults and the overrides
MergedChains(userConfig) ==
    LET defaultChains == DEFAULT_PLUGIN_CONFIG.chains
        userChains    == userConfig.chains
    IN  [chainName \in (DOMAIN defaultChains) \cup (DOMAIN userChains) |->
           Spread(Spread(IF chainName \in DOMAIN defaultChains
                         THEN defaultChains[chainName] ELSE <<>>,
                         IF chainName \in DOMAIN userChains
                         THEN userChains[chainName] ELSE <<>>),
                  [tokens |-> Spread(FieldOr(defaultChains, chainName, "tokens", <<>>),
                                     FieldOr(userChains, chainName, "tokens", <<>>))])]

\* validateConfig without the test of the rpc URL
validateConfig_noRpc(chains) ==
    IF DOMAIN chains = {} THEN "Config plugin requires at least one chain configured"
    ELSE LET noChainId(c) == \/ "chainId" \notin DOMAIN chains[c]
                             \/ trim(chains[c].chainId) = ""
             bad == {c \in DOMAIN chains : noChainId(c)}
         IN  IF bad = {} THEN ""
             ELSE LET chainName == IF FAIR_TESTNET \in bad THEN FAIR_TESTNET
                                   ELSE CHOOSE c \in bad : TRUE
                  IN  "Chain \"" \o chainName \o "\" is missing a valid \"chainId\""

\* PluginConfigManager.validateConfig: the message of the error thrown, ""
\* if none; the chains are visited default chains first
validateConfig(chains) ==
    IF DOMAIN chains = {} THEN "Config plugin requires at least one chain configured"
    ELSE LET noChainId(c) == \/ "chainId" \notin DOMAIN chains[c]
                             \/ trim(chains[c].chainId) = ""
             noRpc(c) == \/ "rpc" \notin DOMAIN chains[c]
                         \/ trim(chains[c].rpc) = ""
             bad == {c \in DOMAIN chains : noChainId(c) \/ noRpc(c)}
         IN  IF bad = {} THEN ""
             ELSE LET chainName == IF FAIR_TESTNET \in bad THEN FAIR_TESTNET
                                   ELSE CHOOSE c \in bad : TRUE
                  IN  IF noChainId(chainName)
                      THEN "Chain \"" \o chainName \o "\" is missing a valid \"chainId\""
                      ELSE "Chain \"" \o chainName \o "\" is missing a valid \"rpc\" URL"

BiteConfigs == {"automatic", "manual"}

(***************************************************************************)
(* Requests                                                                *)
(***************************************************************************)
\* an optional value is a set with at most one element; {} is undefined
Undefined == {}
Some(v) == {v}
Get(o) == CHOOSE v \in o : TRUE

\* a JavaScript number holding a slippage percentage, in basis points
Num(bp) == [nan |-> FALSE, bp |-> bp]
NaN     == [nan |-> TRUE, bp |-> 0]

ChainNames == {FAIR_TESTNET, USER_CHAIN, "unknown", ""}
TokenRefs  == {"FAIR", "fair", "WFAIR", "USDC", "UNKNOWN", "", "eth", "0x12",
               "0x1234567890123456789012345678901234567890"}
AmountStrs == {"", "0", "-1.0", "1.5", "abc"}
Slippages  == {Undefined, Some(Num(0)), Some(Num(1815)), Some(Num(5000)),
               Some(Num(6000)), Some(Num(-100)), Some(NaN)}
IsBiteFlags == {Undefined, Some(TRUE), Some(FALSE)}

SwapRequests ==
    [chainName : ChainNames, inputToken : TokenRefs, outputToken : TokenRefs,
     amount : AmountStrs, slippage : Slippages, isBite : IsBiteFlags]

(***************************************************************************)
(* State                                                                   *)
(***************************************************************************)
VARIABLES
    config,      \* PluginConfigManager.config.chains, the chain registry
    biteConfig,  \* WalletProvider.biteConfig, the encryption mode
    pc,          \* position of the caller in the running operation
    op,          \* the running operation: "none", "swap", "transfer", "getBalance"
    params,      \* the request object of the running operation
    loc,         \* local variables of the running operation
    tx,          \* argument of the sendTransaction call in progress
    calls,       \* external calls awaited so far by the running operation
    result,      \* the response returned by the operation, if any
    err,         \* message of the error thrown by the operation, "" if none
    userConfig,  \* the overrides the provider was constructed with
    chain,       \* what the network holds, where the model follows it: the
                 \* router's allowance over the wallet's input token and the
                 \* transactions broadcast but not yet executed
    parked       \* a second call of the same wallet, suspended at an await

vars == <<config, biteConfig, pc, op, params, loc, tx, calls, result, err,
          userConfig, chain, parked>>

\* the provider's fields, which no operation assigns
provider == <<userConfig, config, biteConfig>>

\* WalletProvider.getAddress(): the address of the account of the private key
WalletAddress == "0x742d35Cc6634C0532925a3b844Bc454e4438f44e"

NoParams == <<>>
NoLoc    == <<>>
NoTx     == <<>>
NoResult == <<>>

\* no call is suspended
NoCall == [pc |-> "idle", op |-> "none", params |-> NoParams, loc |-> NoLoc,
           tx |-> NoTx, calls |-> <<>>, result |-> NoResult, err |-> ""]

Ok(v)    == [ok |-> TRUE, val |-> v, err |-> ""]
Throw(m) == [ok |-> FALSE, val |-> "", err |-> m]

(***************************************************************************)
(* PluginConfigManager and WalletProvider lookups                          *)
(***************************************************************************)
HexChars == Digits \cup {"a","b","c","d","e","f","A","B","C","D","E","F"}

\* viem isAddress (shape only): 0x followed by 40 hex digits
isAddress(a) ==
    /\ Len(a) = 42
    /\ startsWith(a, "0x")
    /\ \A i \in 3..42 : CharAt(a, i) \in HexChars

getChainConfig(chainName) ==
    IF chainName \in DOMAIN config
    THEN Ok(config[chainName])
    ELSE Throw("Chain with that name not registered")

isChainSupported(chainName) ==
    IF chainName = "" THEN Ok(FALSE)
    ELSE LET chainConfig == getChainConfig(chainName)
         IN  IF ~chainConfig.ok THEN chainConfig ELSE Ok(TRUE)

getTokenAddress(chainName, tokenName) ==
    LET tokens == config[chainName].tokens
    IN  IF tokenName \in DOMAIN tokens /\ tokens[tokenName] # ""
        THEN Ok(tokens[tokenName])
        ELSE Throw("Token used not registered on the chain config")

hasUniswap(chainName) ==
    /\ "uniswapV2Router" \in DOMAIN config[chainName]
    /\ isAddress(config[chainName].uniswapV2Router)

getUniswapAddress(chainName) ==
    IF chainName \notin DOMAIN config
    THEN Throw("Chain with that name not registered")
    ELSE IF ~hasUniswap(chainName)
    THEN Throw("Chain doesn't have uniswapV2Router contract on the config")
    ELSE Ok(config[chainName].uniswapV2Router)

getRPC(chainName) == config[chainName].rpc

getChainNativeToken(chainName) == config[chainName].nativeToken

\* WalletProvider.getCurrentChain: the fields of the chain the actions read
getCurrentChain(chainName) ==
    [id             |-> config[chainName].chainId,
     nativeCurrency |-> [symbol |-> config[chainName].nativeToken]]

(***************************************************************************)
(* SwapAction: validation, token resolution, quote arithmetic              *)
(***************************************************************************)
\* DEFAULT_SLIPPAGE = 0.5 percent
DEFAULT_SLIPPAGE == 50
\* DEFAULT_DEADLINE_MINUTES
DEFAULT_DEADLINE_MINUTES == 5
SWAP_GAS == 1000000
DEFAULT_GAS_PRICE == 1000000

\* validateAndNormalizeParams that compares the two tokens case-sensitively
swapValidateAndNormalizeParams_caseSensitive(p) ==
    IF p.inputToken = "" \/ p.outputToken = ""
    THEN "Both inputToken and outputToken are required"
    ELSE IF p.inputToken = p.outputToken
    THEN "Cannot swap the same token"
    ELSE IF p.amount = ""
    THEN "Amount is required"
    ELSE IF LET amountFloat == parseFloat(p.amount)
            IN  ~amountFloat.nan /\ amountFloat.sign <= 0
    THEN "Amount must be greater than 0"
    ELSE IF /\ p.slippage # Undefined
            /\ ~Get(p.slippage).nan
            /\ (Get(p.slippage).bp < 0 \/ Get(p.slippage).bp > 5000)
    THEN "Slippage must be between 0 and 50 percent"
    ELSE ""

\* the message thrown by validateAndNormalizeParams, "" when it returns
swapValidateAndNormalizeParams(p) ==
    IF p.inputToken = "" \/ p.outputToken = ""
    THEN "Both inputToken and outputToken are required"
    ELSE IF toLowerCase(p.inputToken) = toLowerCase(p.outputToken)
    THEN "Cannot swap the same token"
    ELSE IF p.amount = ""
    THEN "Amount is required"
    ELSE IF LET amountFloat == parseFloat(p.amount)
            IN  ~amountFloat.nan /\ amountFloat.sign <= 0
    THEN "Amount must be greater than 0"
    ELSE IF /\ p.slippage # Undefined
            /\ ~Get(p.slippage).nan
            /\ (Get(p.slippage).bp < 0 \/ Get(p.slippage).bp > 5000)
    THEN "Slippage must be between 0 and 50 percent"
    ELSE ""

\* resolveTokenAddress that compares the native symbol case-sensitively
resolveTokenAddress_caseSensitive(token, chainName) ==
    IF startsWith(token, "0x")
    THEN Ok([address |-> token, isNative |-> FALSE])
    ELSE LET nativeToken == getCurrentChain(chainName).nativeCurrency.symbol
         IN  IF token = nativeToken
             THEN LET nativeAddress == getTokenAddress(chainName, "W" \o nativeToken)
                  IN  IF ~nativeAddress.ok THEN nativeAddress
                      ELSE Ok([address |-> nativeAddress.val, isNative |-> TRUE])
             ELSE LET tokenAddress == getTokenAddress(chainName, token)
                  IN  IF ~tokenAddress.ok THEN tokenAddress
                      ELSE Ok([address |-> tokenAddress.val, isNative |-> FALSE])

\* SwapAction.resolveTokenAddress: the resolved token, or the error thrown
resolveTokenAddress(token, chainName) ==
    IF startsWith(token, "0x")
    THEN Ok([address |-> token, isNative |-> FALSE])
    ELSE LET nativeToken == getCurrentChain(chainName).nativeCurrency.symbol
         IN  IF toLowerCase(token) = toLowerCase(nativeToken)
             THEN LET nativeAddress == getTokenAddress(chainName, "W" \o nativeToken)
                  IN  IF ~nativeAddress.ok THEN nativeAddress
                      ELSE Ok([address |-> nativeAddress.val, isNative |-> TRUE])
             ELSE LET tokenAddress == getTokenAddress(chainName, token)
                  IN  IF ~tokenAddress.ok THEN tokenAddress
                      ELSE IF tokenAddress.val = ""
                      THEN Throw("Token " \o token \o " is not supported on "
                                 \o chainName \o ".")
                      ELSE Ok([address |-> tokenAddress.val, isNative |-> FALSE])

(***************************************************************************)
(* Math.floor((100 - slippage) * 100) on IEEE-754 doubles.  For a slippage *)
(* of bp basis points the exact product is 10000 - bp; the double product  *)
(* falls just below that integer for the values of FloatFloorShort (all    *)
(* such values in 0..5000, e.g. 18.15 percent gives 8184.999999999999), so *)
(* that the floor is one less there.                                       *)
(***************************************************************************)
FloatFloorShort ==
    {1815, 1818, 1821, 1826, 1840, 1843, 1846, 1851, 1865, 1868, 1871, 1876,
     1890, 1893, 1896, 1901, 1915, 1918, 1921, 1926, 1940, 1943, 1946, 1951,
     1965, 1968, 1971, 1976, 1990, 1993, 1996, 2001, 2015, 2018, 2021, 2026,
     2040, 2043, 2046, 2051, 2065, 2068, 2071, 2076, 2090, 2093, 2096, 2101,
     2115, 2118, 2121, 2126, 2140, 2143, 2146, 2151, 2165, 2168, 2171, 2176,
     2190, 2193, 2196, 2201, 2215, 2218, 2221, 2226, 2240, 2243, 2246, 2251,
     2265, 2268, 2271, 2276, 2290, 2293, 2296, 2301, 2315, 2318, 2321, 2326,
     2340, 2343, 2346, 2351, 2365, 2368, 2371, 2376, 2390, 2393, 2396, 2401,
     2415, 2418, 2421, 2426, 2440, 2443, 2446, 2451, 2465, 2468, 2471, 2476,
     2490, 2493, 2496, 2501, 2515, 2518, 2521, 2526, 2540, 2543, 2546, 2551,
     2565, 2568, 2571, 2576, 2590, 2593, 2596, 2601, 2615, 2618, 2621, 2626,
     2640, 2643, 2646, 2651, 2665, 2668, 2671, 2676, 2690, 2693, 2696, 2701,
     2715, 2718, 2721, 2726, 2740, 2743, 2746, 2751, 2765, 2768, 2771, 2776,
     2790, 2793, 2796, 2801, 2815, 2818, 2821, 2826, 2840, 2843, 2846, 2851,
     2865, 2868, 2871, 2876, 2890, 2893, 2896, 2901, 2915, 2918, 2921, 2926,
     2940, 2943, 2946, 2951, 2965, 2968, 2971, 2976, 2990, 2993, 2996, 3001,
     3015, 3018, 3021, 3026, 3040, 3043, 3046, 3051, 3065, 3068, 3071, 3076,
     3090, 3093, 3096, 3101, 3115, 3118, 3121, 3126, 3140, 3143, 3146, 3151,
     3165, 3168, 3171, 3176, 3190, 3193, 3196, 3202, 3215, 3218, 3221, 3224,
     3227, 3240, 3243, 3246, 3249, 3252, 3265, 3268, 3271, 3274, 3277, 3290,
     3293, 3296, 3299, 3302, 3315, 3318, 3321, 3324, 3327, 3340, 3343, 3346,
     3349, 3352, 3365, 3368, 3371, 3374, 3377, 3390, 3393, 3396, 3399, 3402,
     3415, 3418, 3421, 3424, 3427, 3440, 3443, 3446, 3449, 3452, 3465, 3468,
     3471, 3474, 3477, 3490, 3493, 3496, 3499, 3502, 3515, 3518, 3521, 3524,
     3527, 3540, 3543, 3546, 3549, 3552, 3565, 3568, 3571, 3574, 3577, 3590,
     3593, 3596, 3599}

FloorPercentTimes100(bp) ==
    IF bp \in FloatFloorShort THEN 10000 - bp - 1 ELSE 10000 - bp

\* const slippage = params.slippage || this.DEFAULT_SLIPPAGE
\* (0 and NaN are falsy numbers)
slippageOrDefault(s) ==
    IF s = Undefined \/ Get(s).nan \/ Get(s).bp = 0
    THEN Num(DEFAULT_SLIPPAGE)
    ELSE Get(s)

\* the arithmetic of calculateAmountOut on the array the router returned;
\* BigInt(NaN) throws a RangeError
quoteAmounts(amounts, slippage) ==
    IF slippage.nan THEN Throw("RangeError")
    ELSE LET amountOut          == amounts[2]
             slippageMultiplier == FloorPercentTimes100(slippage.bp)
             amountOutMin       == (amountOut * slippageMultiplier) \div 10000
         IN  Ok([amountOut |-> amountOut, amountOutMin |-> amountOutMin])

QUOTE_UNAVAILABLE ==
    "Unable to calculate swap amounts. Please check if liquidity exists for this pair."

\* selectRoute with the two native branches interchanged
selectRoute_swapped(inputIsNative, outputIsNative) ==
    IF inputIsNative /\ ~outputIsNative THEN "swapExactTokensForETH"
    ELSE IF ~inputIsNative /\ outputIsNative THEN "swapExactETHForTokens"
    ELSE "swapExactTokensForTokens"

\* the route taken for the two isNative flags
selectRoute(inputIsNative, outputIsNative) ==
    IF inputIsNative /\ ~outputIsNative THEN "swapExactETHForTokens"
    ELSE IF ~inputIsNative /\ outputIsNative THEN "swapExactTokensForETH"
    ELSE "swapExactTokensForTokens"

\* needsApproval that also approves when the allowance equals the amount
needsApproval_le(currentAllowance, amount) == currentAllowance <= amount

\* approveToken: only approve if current allowance is insufficient
needsApproval(currentAllowance, amount) == currentAllowance < amount

\* the deadline is Date.now()/1000 + 300; time is measured from the call
Deadline == DEFAULT_DEADLINE_MINUTES * 60

\* txContent of swapETHForTokens / swapTokensForETH / swapTokensForTokens
routerTx(route, amountIn, amountOutMin, inputTokenAddress, outputTokenAddress, to, chainName) ==
    LET path == <<inputTokenAddress, outputTokenAddress>>
        args == IF route = "swapExactETHForTokens"
                THEN [amountOutMin |-> amountOutMin, path |-> path,
                      to |-> to, deadline |-> Deadline]
                ELSE [amountIn |-> amountIn, amountOutMin |-> amountOutMin,
                      path |-> path, to |-> to, deadline |-> Deadline]
    IN  [to       |-> getUniswapAddress(chainName).val,
         data     |-> [functionName |-> route, args |-> args],
         value    |-> IF route = "swapExactETHForTokens" THEN NatToString(amountIn) ELSE "0",
         gas      |-> SWAP_GAS,
         gasPrice |-> DEFAULT_GAS_PRICE,
         chainId  |-> getCurrentChain(chainName).id]

\* approveTx that approves nothing
approveTx_zero(tokenAddress, spender, amount, chainName) ==
    [to       |-> tokenAddress,
     data     |-> [functionName |-> "approve",
                   args |-> [spender |-> spender, amount |-> 0]],
     value    |-> "0",
     gas      |-> SWAP_GAS,
     gasPrice |-> DEFAULT_GAS_PRICE,
     chainId  |-> getCurrentChain(chainName).id]

\* txContent of approveToken
approveTx(tokenAddress, spender, amount, chainName) ==
    [to       |-> tokenAddress,
     data     |-> [functionName |-> "approve",
                   args |-> [spender |-> spender, amount |-> amount]],
     value    |-> "0",
     gas      |-> SWAP_GAS,
     gasPrice |-> DEFAULT_GAS_PRICE,
     chainId  |-> getCurrentChain(chainName).id]

(***************************************************************************)
(* viem formatUnits(value, decimals)                                       *)
(***************************************************************************)
RECURSIVE padStart(_, _, _)
padStart(s, n, c) == IF Len(s) >= n THEN s ELSE padStart(c \o s, n, c)

formatUnits(value, decimals) ==
    LET negative == value < 0
        display  == padStart(NatToString(IF negative THEN 0 - value ELSE value),
                             decimals, "0")
        integer  == SubSeq(display, 1, Len(display) - decimals)
        fraction == TrimTrailingZeros(SubSeq(display, Len(display) - decimals + 1,
                                             Len(display)))
    IN  (IF negative THEN "-" ELSE "")
        \o (IF integer = "" THEN "0" ELSE integer)
        \o (IF fraction = "" THEN "" ELSE "." \o fraction)

(***************************************************************************)
(* Outcomes of the external collaborators                                  *)
(***************************************************************************)
\* the raw text of an error raised by the RPC client
RPC_ERROR == "execution reverted"
Decimals == {1, MaxDecimals}
AmountsOut == {3, MaxAmountOut}
Allowances == {0, 15, MaxAllowance}
\* a transaction hash as returned by the wallet client; "" is no hash
TX_HASH == "0x1234567890abcdef"
Hashes == {TX_HASH, "0x", ""}

(***************************************************************************)
(* The token contract's allowance(wallet, router), for runs in which the   *)
(* model follows it: approve(router, x) sets it to x and an executed       *)
(* router swap of an ERC-20 input takes amountIn from it, or reverts.  A   *)
(* transaction is executed some time after the broadcast that returned its *)
(* hash; its receipt exists from then on.  The decimals of a token are the *)
(* same at every read.                                                     *)
(***************************************************************************)
\* the network is not followed: a read returns any value
NotFollowed ==
    [allowance |-> Undefined, decimals |-> Undefined, pending |-> {}, dirty |-> {},
     lastGate |-> Undefined, prevGate |-> Undefined]

Followed == chain.allowance # Undefined

\* what an allowance read may return
AllowanceNow == IF Followed THEN chain.allowance ELSE Allowances

\* what a decimals read may return
DecimalsNow == IF Followed THEN chain.decimals ELSE Decimals

\* a hash that names a transaction
UsableHash(hash) == hash # "" /\ hash # "0x"

\* the calls of the wallet are the one running and the one suspended
Renamed(gate, role) ==
    IF gate = Undefined THEN Undefined ELSE Some([Get(gate) EXCEPT !.of = role[@]])

Retagged(role) ==
    [chain EXCEPT !.pending  = {[t EXCEPT !.of = role[@]] : t \in @},
                  !.dirty    = {role[r] : r \in @},
                  !.lastGate = Renamed(@, role),
                  !.prevGate = Renamed(@, role)]

\* the call is inside approveToken, past the allowance read
InApproveToken(call) ==
    \/ call.pc = "swap_wait_approve"
    \/ call.pc \in {"send_encrypt", "send_broadcast"} /\ call.tx.kind = "approve"

\* the allowance read of approveToken has returned currentAllowance: one
\* more run of the approval gate, after the run before it has ended or not
GateRun(currentAllowance) ==
    IF ~Followed THEN chain
    ELSE [chain EXCEPT
            !.dirty    = @ \ {"running"},
            !.prevGate = chain.lastGate,
            !.lastGate = Some([of        |-> "running",
                               amount    |-> loc.amountIn,
                               allowance |-> currentAllowance,
                               approved  |-> needsApproval(currentAllowance, loc.amountIn),
                               confirmed |-> ~needsApproval(currentAllowance,
                                                            loc.amountIn),
                               inARow    |-> ~InApproveToken(parked)])]

\* the broadcast of the transaction in tx has returned hash
Submitted(hash) ==
    IF Followed /\ UsableHash(hash)
    THEN [chain EXCEPT !.pending =
            @ \cup {[of     |-> "running",
                     kind   |-> tx.kind,
                     amount |-> IF "amountIn" \in DOMAIN tx.tansaction.data.args
                                THEN tx.tansaction.data.args.amountIn
                                ELSE IF tx.kind = "approve"
                                THEN tx.tansaction.data.args.amount
                                ELSE 0]}]
    ELSE chain

\* the receipt of the running call's transaction of that kind exists
Executed(kind, hash) ==
    Followed => /\ UsableHash(hash)
                /\ ~\E t \in chain.pending : t.of = "running" /\ t.kind = kind

\* the receipt of the running call's approval has been seen
GateConfirmed ==
    IF Followed /\ chain.lastGate # Undefined /\ Get(chain.lastGate).of = "running"
    THEN [chain EXCEPT !.lastGate = Some([Get(@) EXCEPT !.confirmed = TRUE])]
    ELSE chain
\* what the encryption SDK may throw
EncryptThrown ==
    { [type |-> "Error",  message |-> "BITE committee unavailable"],
      [type |-> "string", message |-> "boom"],
      [type |-> "other",  message |-> "42"],
      [type |-> "unprintable", message |-> ""] }
\* the encrypted form of a transaction {to, data}
BITE_ADDRESS == "0x42495445204D452049274d20454e435259505444"
Encrypted(t) == [to |-> BITE_ADDRESS, data |-> [encrypted |-> t]]

getErrorMessage(error) ==
    IF error.type = "Error" THEN error.message
    ELSE IF error.type = "string" THEN error.message
    ELSE IF error.type = "other" THEN error.message
    ELSE "Unknown error occurred"

Truthy(flag) == flag = Some(TRUE)

\* mustEncrypt that ignores the flag of the request
mustEncrypt_modeOnly(isBite) == biteConfig = "automatic"

\* WalletProvider.sendTransaction: whether the transaction is encrypted
mustEncrypt(isBite) == biteConfig = "automatic" \/ Truthy(isBite)

(***************************************************************************)
(* Steps shared by the actions                                             *)
(***************************************************************************)
Log(entry) == calls' = Append(calls, entry)

\* the running operation throws
Fails(message) ==
    /\ pc' = "failed"
    /\ err' = message
    /\ tx' = NoTx
    /\ UNCHANGED <<provider, chain, parked, op, params, loc, result>>

\* WalletProvider.sendTransaction(chainName, tansaction, isBite) up to its
\* first await
SendTransaction(tansaction, isBite, kind) ==
    /\ tx' = [tansaction |-> tansaction,
              isBite     |-> isBite,
              kind       |-> kind,
              tx_        |-> [to |-> tansaction.to, data |-> tansaction.data],
              encrypted  |-> FALSE]
    /\ pc' = IF mustEncrypt(isBite) THEN "send_encrypt" ELSE "send_broadcast"

\* outcome of an awaited external call
Thrown(error) == [threw |-> TRUE, value |-> error]
Returned(v)   == [threw |-> FALSE, value |-> v]

\* log entry of WalletProvider.readContract
ReadContract(address, functionName, args, outcome) ==
    [call |-> "readContract", address |-> address,
     functionName |-> functionName, args |-> args,
     threw |-> outcome.threw, value |-> outcome.value]

\* log entry of WalletProvider.waitForTx / waitForTransactionReceipt
WaitForReceipt(hash, outcome) ==
    [call |-> "waitForTransactionReceipt", hash |-> hash,
     threw |-> outcome.threw, value |-> outcome.value]

(***************************************************************************)
(* SwapAction.swap                                                         *)
(***************************************************************************)
\* swap up to its first await: chain check, validation, token resolution
swapEntry(p) ==
    LET supported == isChainSupported(p.chainName)
    IN  IF ~supported.ok THEN Throw(supported.err)
        ELSE IF ~supported.val
        THEN Throw("Chain '" \o p.chainName \o "' is not supported.")
        ELSE LET invalid == swapValidateAndNormalizeParams(p)
             IN  IF invalid # "" THEN Throw(invalid)
                 ELSE LET inputTokenInfo == resolveTokenAddress(p.inputToken, p.chainName)
                      IN  IF ~inputTokenInfo.ok THEN Throw(inputTokenInfo.err)
                          ELSE LET outputTokenInfo ==
                                       resolveTokenAddress(p.outputToken, p.chainName)
                               IN  IF ~outputTokenInfo.ok THEN Throw(outputTokenInfo.err)
                                   ELSE Ok([fromAddress     |-> WalletAddress,
                                            inputTokenInfo  |-> inputTokenInfo.val,
                                            outputTokenInfo |-> outputTokenInfo.val])

StartSwapOf(requests) ==
    /\ pc = "idle"
    /\ \E p \in requests :
         LET entry == swapEntry(p)
         IN  /\ op' = "swap"
             /\ params' = p
             /\ calls' = <<>>
             /\ result' = NoResult
             /\ tx' = NoTx
             /\ IF entry.ok
                THEN pc' = "swap_decimals_in" /\ loc' = entry.val /\ err' = ""
                ELSE pc' = "failed" /\ loc' = NoLoc /\ err' = entry.err
    /\ UNCHANGED <<provider, chain, parked>>

StartSwap == StartSwapOf(SwapRequests)

\* const fromTokenDecimals = await readContract(input, 'decimals')
SwapReadInputDecimals ==
    /\ pc = "swap_decimals_in"
    /\ \/ /\ Log(ReadContract(loc.inputTokenInfo.address, "decimals", <<>>,
                            Thrown(RPC_ERROR)))
          /\ Fails(RPC_ERROR)
       \/ \E d \in DecimalsNow :
            /\ Log(ReadContract(loc.inputTokenInfo.address, "decimals", <<>>,
                                Returned(d)))
            /\ loc' = [fromTokenDecimals |-> d] @@ loc
            /\ pc' = "swap_decimals_out"
            /\ UNCHANGED <<provider, chain, parked, op, params, tx, result, err>>

\* const toTokenDecimals = await readContract(output, 'decimals'); then
\* parseUnits, the slippage and calculateAmountOut up to its await
SwapReadOutputDecimals ==
    /\ pc = "swap_decimals_out"
    /\ \/ /\ Log(ReadContract(loc.outputTokenInfo.address, "decimals", <<>>,
                            Thrown(RPC_ERROR)))
          /\ Fails(RPC_ERROR)
       \/ \E d \in DecimalsNow :
            /\ Log(ReadContract(loc.outputTokenInfo.address, "decimals", <<>>,
                                Returned(d)))
            /\ LET amountIn      == parseUnits(params.amount, loc.fromTokenDecimals)
                   slippage      == slippageOrDefault(params.slippage)
                   routerAddress == getUniswapAddress(params.chainName)
               IN  IF ~amountIn.ok THEN Fails("InvalidDecimalNumberError")
                   ELSE IF ~routerAddress.ok THEN Fails(routerAddress.err)
                   ELSE /\ loc' = [toTokenDecimals |-> d,
                                   amountIn        |-> BigIntValue(amountIn.digits),
                                   slippage        |-> slippage,
                                   routerAddress   |-> routerAddress.val] @@ loc
                        /\ pc' = "swap_quote"
                        /\ UNCHANGED <<provider, chain, parked, op, params, tx, result, err>>

\* quoteCatch that rethrows what it caught
quoteCatch_raw(error) == error

\* calculateAmountOut: the catch block replaces whatever was thrown in the
\* try block by the domain message
quoteCatch(error) == QUOTE_UNAVAILABLE

\* the arguments of the getAmountsOut read
QuoteArgs ==
    <<loc.amountIn, <<loc.inputTokenInfo.address, loc.outputTokenInfo.address>> >>

\* calculateAmountOut: await readContract(router, 'getAmountsOut') inside
\* the try block, then the route selection of swap up to the next await
SwapQuote ==
    /\ pc = "swap_quote"
    /\ \/ /\ Log(ReadContract(loc.routerAddress, "getAmountsOut", QuoteArgs,
                            Thrown(RPC_ERROR)))
          /\ Fails(quoteCatch(RPC_ERROR))
       \/ \E out \in AmountsOut :
            /\ Log(ReadContract(loc.routerAddress, "getAmountsOut", QuoteArgs,
                                Returned(<<loc.amountIn, out>>)))
            /\ LET quote == quoteAmounts(<<loc.amountIn, out>>, loc.slippage)
                   route == selectRoute(loc.inputTokenInfo.isNative,
                                        loc.outputTokenInfo.isNative)
               IN  IF ~quote.ok THEN Fails(quoteCatch(quote.err))
                   ELSE /\ loc' = [amountOut    |-> quote.val.amountOut,
                                   amountOutMin |-> quote.val.amountOutMin,
                                   route        |-> route] @@ loc
                        /\ IF route = "swapExactETHForTokens"
                           THEN SendTransaction(
                                    routerTx(route, loc.amountIn, quote.val.amountOutMin,
                                             loc.inputTokenInfo.address,
                                             loc.outputTokenInfo.address,
                                             loc.fromAddress, params.chainName),
                                    params.isBite, "router")
                           ELSE pc' = "swap_allowance" /\ tx' = NoTx
                        /\ UNCHANGED <<provider, chain, parked, op, params, result, err>>

\* the router transaction of the selected route
SwapRouterTx ==
    routerTx(loc.route, loc.amountIn, loc.amountOutMin,
             loc.inputTokenInfo.address, loc.outputTokenInfo.address,
             loc.fromAddress, params.chainName)

\* approveToken: await readContract(token, 'allowance'), then either the
\* approval transaction or the router transaction is handed to the provider
SwapReadAllowance ==
    /\ pc = "swap_allowance"
    /\ \/ /\ Log(ReadContract(loc.inputTokenInfo.address, "allowance",
                            <<WalletAddress, loc.routerAddress>>, Thrown(RPC_ERROR)))
          /\ Fails(RPC_ERROR)
       \/ \E currentAllowance \in AllowanceNow :
            /\ Log(ReadContract(loc.inputTokenInfo.address, "allowance",
                                <<WalletAddress, loc.routerAddress>>,
                                Returned(currentAllowance)))
            /\ loc' = [currentAllowance |-> currentAllowance] @@ loc
            /\ chain' = GateRun(currentAllowance)
            /\ IF needsApproval(currentAllowance, loc.amountIn)
               THEN SendTransaction(approveTx(loc.inputTokenInfo.address,
                                              loc.routerAddress, loc.amountIn,
                                              params.chainName),
                                    params.isBite, "approve")
               ELSE SendTransaction(SwapRouterTx, params.isBite, "router")
            /\ UNCHANGED <<provider, parked, op, params, result, err>>

\* approveToken that does not wait for the receipt of the approval
SwapWaitApproval_noWait ==
    /\ pc = "swap_wait_approve"
    /\ SendTransaction(SwapRouterTx, params.isBite, "router")
    /\ UNCHANGED <<provider, chain, parked, op, params, loc, calls, result, err>>

\* approveToken: await waitForTx(approveTxHash), then the router transaction
SwapWaitApproval ==
    /\ pc = "swap_wait_approve"
    /\ \/ /\ Log(WaitForReceipt(loc.approveTxHash, Thrown(RPC_ERROR)))
          /\ Fails(RPC_ERROR)
       \/ /\ Executed("approve", loc.approveTxHash)
          /\ Log(WaitForReceipt(loc.approveTxHash, Returned("receipt")))
          /\ SendTransaction(SwapRouterTx, params.isBite, "router")
          /\ chain' = GateConfirmed
          /\ UNCHANGED <<provider, parked, op, params, loc, result, err>>

\* swapResponse that formats the output with the input token's decimals
swapResponse_inputDecimals ==
    [chainName   |-> params.chainName,
     txHash      |-> loc.txHash,
     inputToken  |-> params.inputToken,
     outputToken |-> params.outputToken,
     amountIn    |-> IF includes(params.amount, ".") THEN params.amount
                     ELSE params.amount \o ".0",
     amountOut   |-> formatUnits(loc.amountOut, loc.fromTokenDecimals),
     isBite      |-> params.isBite]

\* the SwapResponse
swapResponse ==
    [chainName   |-> params.chainName,
     txHash      |-> loc.txHash,
     inputToken  |-> params.inputToken,
     outputToken |-> params.outputToken,
     amountIn    |-> IF includes(params.amount, ".") THEN params.amount
                     ELSE params.amount \o ".0",
     amountOut   |-> formatUnits(loc.amountOut, loc.toTokenDecimals),
     isBite      |-> params.isBite]

\* await waitForTx(txHash), then the response is returned
SwapWaitReceipt ==
    /\ pc = "swap_wait"
    /\ \/ /\ Log(WaitForReceipt(loc.txHash, Thrown(RPC_ERROR)))
          /\ Fails(RPC_ERROR)
       \/ /\ Executed("router", loc.txHash)
          /\ Log(WaitForReceipt(loc.txHash, Returned("receipt")))
          /\ result' = swapResponse
          /\ pc' = "done"
          /\ UNCHANGED <<provider, chain, parked, op, params, loc, tx, err>>

(***************************************************************************)
(* WalletProvider.formatAddress and TransferAction.transfer                *)
(***************************************************************************)
TransferRequests ==
    [chainName : ChainNames,
     token     : {Undefined, Some(""), Some("null"), Some("fair"), Some("USDC"),
                  Some("UNKNOWN")},
     amount    : {Undefined, Some("0"), Some("-1.0"), Some("1"), Some("1.5"), Some("abc")},
     toAddress : {Undefined, Some("0x2CE4EaF47CACFbC6590686f8f7521e0385822334"),
                  Some("USDC")},
     data      : {Undefined, Some("null"), Some("0xdead")},
     isBite    : IsBiteFlags]

TRANSFER_GAS == 1000000

commonTokens == {"FAIR", "USDT", "USDC", "SKL", "WFAIR"}

\* the address formatAddress resolves to
formatAddress(address) ==
    IF address = Undefined THEN WalletAddress
    ELSE IF Len(trim(Get(address))) = 0 THEN WalletAddress
    ELSE LET addressStr == trim(Get(address))
         IN  IF startsWith(addressStr, "0x") /\ Len(addressStr) = 42 THEN addressStr
             ELSE IF toUpperCase(addressStr) \in commonTokens THEN WalletAddress
             ELSE IF startsWith(addressStr, "0x") THEN addressStr
             ELSE WalletAddress

\* formatAddress is async: a call that is not awaited yields the pending
\* promise of the address, which is no address string
Promise(v) == "Promise<" \o v \o ">"

\* falsy: undefined or the empty string
Falsy(o) == o = Undefined \/ o = Some("")

\* validateAndNormalizeParams that rejects zero and negative amounts alike,
\* as the swap validation does
transferValidateAndNormalizeParams_le(p) ==
    IF Falsy(p.toAddress) THEN Throw("To address is required")
    ELSE LET amountFloat == parseFloat(Get(p.amount))
         IN  IF p.amount # Undefined /\ ~amountFloat.nan /\ amountFloat.sign <= 0
             THEN Throw("Amount must be greater than 0")
             ELSE Ok([p EXCEPT !.toAddress = Promise(formatAddress(p.toAddress)),
                               !.data = IF p.data = Some("null") THEN Some("0x")
                                        ELSE p.data])

\* TransferAction.validateAndNormalizeParams: throws, or rewrites toAddress
\* and data of the request
transferValidateAndNormalizeParams(p) ==
    IF Falsy(p.toAddress) THEN Throw("To address is required")
    ELSE LET amountFloat == parseFloat(Get(p.amount))
         IN  IF p.amount # Undefined /\ ~amountFloat.nan /\ amountFloat.sign = 0
             THEN Throw("Amount must be greater than 0")
             ELSE IF p.amount # Undefined /\ ~amountFloat.nan /\ amountFloat.sign < 0
             THEN Throw("Amount cannot be negative")
             ELSE Ok([p EXCEPT !.toAddress = Promise(formatAddress(p.toAddress)),
                               !.data = IF p.data = Some("null") THEN Some("0x")
                                        ELSE p.data])

\* transferToken that compares with the native symbol case-sensitively
transferToken_caseSensitive(token, nativeToken) ==
    IF Falsy(token) \/ token = Some("null") THEN nativeToken
    ELSE Get(token)

\* the token of the request after the null/empty/native-symbol rule
transferToken(token, nativeToken) ==
    IF Falsy(token) \/ token = Some("null") THEN nativeToken
    ELSE IF toLowerCase(Get(token)) = toLowerCase(nativeToken) THEN nativeToken
    ELSE Get(token)

\* parseUnits of an amount that may be undefined
parseAmount(amount, decimals) ==
    IF amount = Undefined THEN [ok |-> FALSE, negative |-> FALSE, digits |-> "0"]
    ELSE parseUnits(Get(amount), decimals)

amountStr(amount) == IF includes(amount, ".") THEN amount ELSE amount \o ".0"

\* transfer up to its first await
transferEntry(p) ==
    LET supported == isChainSupported(p.chainName)
    IN  IF ~supported.ok THEN Throw(supported.err)
        ELSE IF ~supported.val
        THEN Throw("Chain '" \o p.chainName \o "' is not supported")
        ELSE
        LET valid == transferValidateAndNormalizeParams(p)
        IN  IF ~valid.ok THEN Throw(valid.err)
            ELSE
            LET nativeToken == getCurrentChain(p.chainName).nativeCurrency.symbol
                token       == transferToken(p.token, nativeToken)
                q           == [valid.val EXCEPT !.token = Some(token)]
                resp        == [chainName |-> q.chainName,
                                txHash    |-> "0x",
                                recipient |-> q.toAddress,
                                amount    |-> "",
                                token     |-> token,
                                isBite    |-> q.isBite]
                txToEncrypt == [to       |-> q.toAddress,
                                data     |-> q.data,
                                value    |-> "0",
                                gas      |-> TRANSFER_GAS,
                                gasPrice |-> DEFAULT_GAS_PRICE,
                                chainId  |-> getCurrentChain(p.chainName).id]
            IN  IF token = nativeToken
                THEN LET value == parseAmount(q.amount, 18)
                     IN  IF ~value.ok THEN Throw("InvalidDecimalNumberError")
                         ELSE Ok([params      |-> q,
                                  native      |-> TRUE,
                                  resp        |-> [resp EXCEPT
                                                     !.amount = amountStr(Get(q.amount))],
                                  txToEncrypt |-> [txToEncrypt EXCEPT
                                                     !.value = value.digits]])
                ELSE LET tokenAddress == getTokenAddress(p.chainName, token)
                     IN  IF ~tokenAddress.ok THEN Throw(tokenAddress.err)
                         ELSE Ok([params       |-> q,
                                  native       |-> FALSE,
                                  tokenAddress |-> tokenAddress.val,
                                  resp         |-> resp,
                                  txToEncrypt  |-> txToEncrypt])

StartTransfer ==
    /\ pc = "idle"
    /\ \E p \in TransferRequests :
         LET entry == transferEntry(p)
         IN  /\ op' = "transfer"
             /\ calls' = <<>>
             /\ result' = NoResult
             /\ IF ~entry.ok
                THEN /\ pc' = "failed" /\ err' = entry.err
                     /\ params' = p /\ loc' = NoLoc /\ tx' = NoTx
                ELSE /\ params' = entry.val.params
                     /\ loc' = [request |-> p] @@ entry.val
                     /\ err' = ""
                     /\ IF entry.val.native
                        THEN SendTransaction(entry.val.txToEncrypt, p.isBite,
                                             "transfer_native")
                        ELSE pc' = "transfer_decimals" /\ tx' = NoTx
    /\ UNCHANGED <<provider, chain, parked>>

\* ERC-20 branch: const decimals = await readContract(token, 'decimals');
\* then parseUnits and encodeFunctionData(transfer, [toAddress, value]).
\* toAddress is the promise left by validateAndNormalizeParams, not an
\* address: the encoder of the EVM library either rejects it
\* (InvalidAddressError) or encodes it.
TransferReadDecimals ==
    /\ pc = "transfer_decimals"
    /\ \/ /\ Log(ReadContract(loc.tokenAddress, "decimals", <<>>, Thrown(RPC_ERROR)))
          /\ Fails(RPC_ERROR)
       \/ \E decimals \in Decimals :
            /\ Log(ReadContract(loc.tokenAddress, "decimals", <<>>, Returned(decimals)))
            /\ LET value == parseAmount(params.amount, decimals)
               IN  IF ~value.ok THEN Fails("InvalidDecimalNumberError")
                   ELSE \/ Fails("InvalidAddressError")
                        \/ /\ loc' = [loc EXCEPT
                                        !.resp.amount = amountStr(Get(params.amount))]
                           /\ SendTransaction(
                                  [loc.txToEncrypt EXCEPT
                                     !.data = [functionName |-> "transfer",
                                               args |-> [to     |-> params.toAddress,
                                                         amount |-> value.digits]],
                                     !.to = loc.tokenAddress],
                                  params.isBite, "transfer_erc20")
                           /\ UNCHANGED <<provider, chain, parked, op, params, result, err>>

\* ERC-20 branch that returns resp without awaiting the receipt
TransferWaitReceipt_noWait ==
    /\ pc = "transfer_wait"
    /\ result' = loc.resp
    /\ pc' = "done"
    /\ UNCHANGED <<provider, chain, parked, op, params, loc, tx, calls, err>>

\* ERC-20 branch: await publicClient.waitForTransactionReceipt, return resp
TransferWaitReceipt ==
    /\ pc = "transfer_wait"
    /\ \/ /\ Log(WaitForReceipt(loc.resp.txHash, Thrown(RPC_ERROR)))
          /\ Fails(RPC_ERROR)
       \/ /\ Log(WaitForReceipt(loc.resp.txHash, Returned("receipt")))
          /\ result' = loc.resp
          /\ pc' = "done"
          /\ UNCHANGED <<provider, chain, parked, op, params, loc, tx, err>>

(***************************************************************************)
(* WalletProvider.sendTransaction and BiteMiddleware.encryptTransaction    *)
(***************************************************************************)
\* log entry of BiteMiddleware.encryptTransaction
EncryptCall(t, outcome) ==
    [call  |-> "encryptTransaction",
     rpc   |-> getRPC(params.chainName),
     tx    |-> [to |-> t.tansaction.to, data |-> t.tansaction.data],
     kind  |-> t.kind,
     threw |-> outcome.threw, value |-> outcome.value]

\* encryptionFailed that rethrows the message without context
encryptionFailed_noContext(error) == getErrorMessage(error)

\* BiteMiddleware.encryptTransaction: the message of the error it rethrows
encryptionFailed(error) == "Failed to encrypt transaction: " \o getErrorMessage(error)

\* tx_ = await this.encryptTx(rpc, tansaction)
Encrypt ==
    /\ pc = "send_encrypt"
    /\ \/ \E error \in EncryptThrown :
            /\ Log(EncryptCall(tx, Thrown(error)))
            /\ Fails(encryptionFailed(error))
       \/ LET ecryptedTransaction == Encrypted([to   |-> tx.tansaction.to,
                                                data |-> tx.tansaction.data])
          IN  /\ Log(EncryptCall(tx, Returned(ecryptedTransaction)))
              /\ tx' = [tx EXCEPT !.tx_ = ecryptedTransaction, !.encrypted = TRUE]
              /\ pc' = "send_broadcast"
              /\ UNCHANGED <<provider, chain, parked, op, params, loc, result, err>>

\* the argument of wallet.sendTransaction
broadcastTx(t) ==
    [to       |-> t.tx_.to,
     data     |-> t.tx_.data,
     value    |-> t.tansaction.value,
     gas      |-> t.tansaction.gas,
     gasPrice |-> t.tansaction.gasPrice]

\* log entry of wallet.sendTransaction: the transaction handed to the
\* provider, the transaction broadcast, and the hash returned
BroadcastCall(t, outcome) ==
    [call       |-> "sendTransaction",
     tansaction |-> t.tansaction,
     tx         |-> broadcastTx(t),
     encrypted  |-> t.encrypted,
     kind       |-> t.kind,
     threw      |-> outcome.threw, value |-> outcome.value]

\* hashMissing without the test for the empty hash '0x'
hashMissing_noEmptyHex(txHash) == txHash = ""

\* if (!txHash || txHash === '0x') throw
hashMissing(txHash) == txHash = "" \/ txHash = "0x"

\* const tx = await wallet.sendTransaction(...); the hash goes back to the
\* caller, which runs up to its next await or to its return
Broadcast ==
    /\ pc = "send_broadcast"
    /\ \/ /\ Log(BroadcastCall(tx, Thrown(RPC_ERROR)))
          /\ Fails(RPC_ERROR)
       \/ \E hash \in Hashes :
            /\ Log(BroadcastCall(tx, Returned(hash)))
            /\ CASE tx.kind = "approve" ->
                      \* approveToken: the hash is not examined
                      /\ loc' = [approveTxHash |-> hash] @@ loc
                      /\ pc' = "swap_wait_approve"
                      /\ tx' = NoTx
                      /\ chain' = Submitted(hash)
                      /\ UNCHANGED <<provider, parked, op, params, result, err>>
                 [] tx.kind = "router" ->
                      IF hashMissing(hash)
                      THEN Fails("Swap transaction hash not received")
                      ELSE /\ loc' = [txHash |-> hash] @@ loc
                           /\ pc' = "swap_wait"
                           /\ tx' = NoTx
                           /\ chain' = Submitted(hash)
                           /\ UNCHANGED <<provider, parked, op, params, result, err>>
                 [] tx.kind = "transfer_native" ->
                      \* native branch: returns resp without examining the hash
                      /\ result' = [loc.resp EXCEPT !.txHash = hash]
                      /\ pc' = "done"
                      /\ UNCHANGED <<provider, chain, parked, op, params, loc, tx, err>>
                 [] tx.kind = "transfer_erc20" ->
                      IF hashMissing(hash)
                      THEN Fails("Get transaction hash failed")
                      ELSE /\ loc' = [loc EXCEPT !.resp.txHash = hash]
                           /\ pc' = "transfer_wait"
                           /\ tx' = NoTx
                           /\ UNCHANGED <<provider, chain, parked, op, params, result, err>>

(***************************************************************************)
(* GetBalanceAction.getBalance                                             *)
(***************************************************************************)
\* an account other than the wallet's own
OTHER_ADDRESS == "0x2CE4EaF47CACFbC6590686f8f7521e0385822334"

GetBalanceRequests ==
    [chainName : {FAIR_TESTNET, "unknown", ""},
     address   : {Undefined, Some(WalletAddress), Some(OTHER_ADDRESS), Some("usdc"),
                  Some("0x12"), Some("null"), Some(" " \o OTHER_ADDRESS)},
     token     : {Undefined, Some("fair"), Some("USDC"), Some("UNKNOWN"),
                  Some("0x1234567890123456789012345678901234567890")}]

\* raw balances the chain may report
Balances == {0, 5, MaxBalance}

\* GetBalanceAction.validateAndNormalizeParams: the chain name and the
\* address the request is normalized to
getBalanceValidateAndNormalizeParams(p) ==
    LET chainName  == IF p.chainName = "" THEN FAIR_TESTNET ELSE p.chainName
        addressStr == Get(p.address)
        address ==
          IF Falsy(p.address) THEN WalletAddress
          ELSE IF addressStr = "null" \/ addressStr = "undefined" THEN WalletAddress
          ELSE IF startsWith(addressStr, "0x") /\ Len(addressStr) = 42 THEN addressStr
          ELSE IF ~getChainConfig(chainName).ok THEN WalletAddress
          ELSE IF toUpperCase(addressStr)
                    \in (DOMAIN config[chainName].tokens) \cup {config[chainName].nativeToken}
          THEN WalletAddress
          ELSE IF startsWith(addressStr, "0x") THEN addressStr
          ELSE WalletAddress
    IN  [p EXCEPT !.chainName = chainName, !.address = address]

\* whether the native balance is asked for
queryNativeToken(token, chainName) ==
    \/ Falsy(token)
    \/ toUpperCase(Get(token)) = getChainNativeToken(chainName)

\* getBalance up to its first call of the RPC client
getBalanceEntry(p) ==
    LET q == getBalanceValidateAndNormalizeParams(p)
    IN  IF ~getChainConfig(q.chainName).ok THEN Throw(getChainConfig(q.chainName).err)
        ELSE
        LET nativeSymbol == getCurrentChain(q.chainName).nativeCurrency.symbol
            resp         == [chainName |-> q.chainName, address |-> q.address]
        IN  IF queryNativeToken(q.token, q.chainName)
            THEN Ok([params |-> q, native |-> TRUE, nativeSymbol |-> nativeSymbol,
                     resp |-> resp])
            ELSE IF startsWith(Get(q.token), "0x")
            THEN Ok([params |-> q, native |-> FALSE, tokenAddress |-> Get(q.token),
                     resp |-> resp])
            ELSE LET tokenAddress == getTokenAddress(q.chainName, Get(q.token))
                 IN  IF ~tokenAddress.ok THEN Throw(tokenAddress.err)
                     ELSE Ok([params |-> q, native |-> FALSE,
                              tokenAddress |-> tokenAddress.val, resp |-> resp])

StartGetBalance ==
    /\ pc = "idle"
    /\ \E p \in GetBalanceRequests :
         LET entry == getBalanceEntry(p)
         IN  /\ op' = "getBalance"
             /\ calls' = <<>>
             /\ result' = NoResult
             /\ tx' = NoTx
             /\ IF ~entry.ok
                THEN /\ pc' = "failed" /\ err' = entry.err
                     /\ params' = getBalanceValidateAndNormalizeParams(p)
                     /\ loc' = [request |-> p]
                ELSE /\ params' = entry.val.params
                     /\ loc' = [request |-> p] @@ entry.val
                     /\ err' = ""
                     /\ pc' = IF entry.val.native THEN "balance_native"
                              ELSE "balance_of"
    /\ UNCHANGED <<provider, chain, parked>>

\* WalletProvider.getBalance(chainName): the account whose native balance is
\* read is this.account.address, whatever address the request names
balanceAccount(address) == WalletAddress

\* log entry of client.getBalance({address})
GetBalanceCall(address, outcome) ==
    [call |-> "getBalance", address |-> address,
     threw |-> outcome.threw, value |-> outcome.value]

\* const balance = await this.walletProvider.getBalance(params.chainName)
GetBalanceNative ==
    /\ pc = "balance_native"
    /\ \/ /\ Log(GetBalanceCall(balanceAccount(params.address), Thrown(RPC_ERROR)))
          /\ Fails(RPC_ERROR)
       \/ \E balance \in Balances :
            /\ Log(GetBalanceCall(balanceAccount(params.address), Returned(balance)))
            /\ result' = [balance |-> [token  |-> loc.nativeSymbol,
                                        amount |-> formatUnits(balance, 18)]]
                          @@ loc.resp
            /\ pc' = "done"
            /\ UNCHANGED <<provider, chain, parked, op, params, loc, tx, err>>

\* getERC20TokenBalance: await readContract(tokenAddress, 'balanceOf', [address])
GetBalanceReadBalanceOf ==
    /\ pc = "balance_of"
    /\ \/ /\ Log(ReadContract(loc.tokenAddress, "balanceOf", <<params.address>>,
                            Thrown(RPC_ERROR)))
          /\ Fails(RPC_ERROR)
       \/ \E balance \in Balances :
            /\ Log(ReadContract(loc.tokenAddress, "balanceOf", <<params.address>>,
                                Returned(balance)))
            /\ loc' = [balance |-> balance] @@ loc
            /\ pc' = "balance_decimals"
            /\ UNCHANGED <<provider, chain, parked, op, params, tx, result, err>>

\* getERC20TokenBalance: await readContract(tokenAddress, 'decimals'), then
\* formatUnits(balance, decimals)
GetBalanceReadDecimals ==
    /\ pc = "balance_decimals"
    /\ \/ /\ Log(ReadContract(loc.tokenAddress, "decimals", <<>>, Thrown(RPC_ERROR)))
          /\ Fails(RPC_ERROR)
       \/ \E decimals \in Decimals :
            /\ Log(ReadContract(loc.tokenAddress, "decimals", <<>>, Returned(decimals)))
            /\ result' = [balance |-> [token  |-> Get(params.token),
                                        amount |-> formatUnits(loc.balance, decimals)]]
                          @@ loc.resp
            /\ pc' = "done"
            /\ UNCHANGED <<provider, chain, parked, op, params, loc, tx, err>>

\* the operation has returned or thrown; the caller may issue the next one
Finish ==
    /\ pc \in {"done", "failed"}
    /\ pc' = "idle"
    /\ op' = "none"
    /\ params' = NoParams
    /\ loc' = NoLoc
    /\ tx' = NoTx
    /\ calls' = <<>>
    /\ result' = NoResult
    /\ err' = ""
    /\ UNCHANGED <<provider, chain, parked>>

(***************************************************************************)
(* Specification                                                           *)
(***************************************************************************)
\* the provider as constructed: new WalletProvider(privateKey, biteConfig,
\* pluginConfig)
\* a provider whose constructor threw is in no state to be called
Construct ==
    /\ userConfig \in UserConfigs
    /\ config = MergedChains(userConfig)
    /\ biteConfig \in BiteConfigs
    /\ pc = IF validateConfig(config) = "" THEN "idle" ELSE "unconstructed"
    /\ op = "none"
    /\ params = NoParams
    /\ loc = NoLoc
    /\ tx = NoTx
    /\ calls = <<>>
    /\ result = NoResult
    /\ err = validateConfig(config)
    /\ parked = NoCall

Init ==
    /\ Construct
    /\ chain = NotFollowed

Next ==
    \/ StartTransfer
    \/ TransferReadDecimals
    \/ TransferWaitReceipt
    \/ StartSwap
    \/ SwapReadInputDecimals
    \/ SwapReadOutputDecimals
    \/ SwapQuote
    \/ SwapReadAllowance
    \/ SwapWaitApproval
    \/ SwapWaitReceipt
    \/ StartGetBalance
    \/ GetBalanceNative
    \/ GetBalanceReadBalanceOf
    \/ GetBalanceReadDecimals
    \/ Encrypt
    \/ Broadcast
    \/ Finish

Spec == Init /\ [][Next]_vars

(***************************************************************************)
(* Two swap calls of one wallet on one input token, one after the other or *)
(* interleaved.  A call is suspended at each of its awaits, where the      *)
(* other call may start or go on; the allowance and the transactions of    *)
(* both are followed.                                                      *)
(***************************************************************************)
\* swaps of the same ERC-20 input token
TokenSwapRequests ==
    [chainName : {FAIR_TESTNET}, inputToken : {"USDC"}, outputToken : {"FAIR", "SKL"},
     amount : {"1.5"}, slippage : {Undefined}, isBite : {Undefined}]

StartTokenSwap == StartSwapOf(TokenSwapRequests)

\* the network executes a transaction that was broadcast
Mine ==
    /\ Followed
    /\ \E t \in chain.pending :
         LET allowance == Get(chain.allowance)
             inWindow(c) ==
                 \/ InApproveToken(c)
                 \/ c.pc = "send_encrypt" /\ c.tx.kind = "router"
             stale == {r \in {"running", "parked"} \ {t.of} :
                         inWindow(IF r = "running" THEN [pc |-> pc, tx |-> tx]
                                  ELSE [pc |-> parked.pc, tx |-> parked.tx])}
         IN  chain' = [chain EXCEPT
                 !.pending   = @ \ {t},
                 !.allowance = Some(IF t.kind = "approve" THEN t.amount
                                    ELSE IF allowance >= t.amount
                                    THEN allowance - t.amount
                                    ELSE allowance),
                 !.dirty     = @ \cup stale,
                 !.lastGate  = IF @ = Undefined THEN @
                               ELSE Some([Get(@) EXCEPT !.confirmed = FALSE])]
    /\ UNCHANGED <<provider, pc, op, params, loc, tx, calls, result, err, parked>>

\* the running call is suspended at its await and the other call runs
Switch ==
    /\ pc # "unconstructed"
    /\ parked # [pc |-> pc, op |-> op, params |-> params, loc |-> loc, tx |-> tx,
                 calls |-> calls, result |-> result, err |-> err]
    /\ parked' = [pc |-> pc, op |-> op, params |-> params, loc |-> loc, tx |-> tx,
                  calls |-> calls, result |-> result, err |-> err]
    /\ pc' = parked.pc
    /\ op' = parked.op
    /\ params' = parked.params
    /\ loc' = parked.loc
    /\ tx' = parked.tx
    /\ calls' = parked.calls
    /\ result' = parked.result
    /\ err' = parked.err
    /\ chain' = Retagged([r \in {"running", "parked"} |->
                            IF r = "running" THEN "parked" ELSE "running"])
    /\ UNCHANGED provider

InitInterleaved ==
    /\ Construct
    /\ userConfig = [chains |-> <<>>]
    /\ \E allowance \in Allowances, decimals \in Decimals :
         chain = [NotFollowed EXCEPT !.allowance = Some(allowance),
                                     !.decimals  = Some(decimals)]

NextInterleaved ==
    \/ StartTokenSwap
    \/ SwapReadInputDecimals
    \/ SwapReadOutputDecimals
    \/ SwapQuote
    \/ SwapReadAllowance
    \/ SwapWaitApproval
    \/ SwapWaitReceipt
    \/ Encrypt
    \/ Broadcast
    \/ Mine
    \/ Switch

SpecInterleaved == InitInterleaved /\ [][NextInterleaved]_vars

(***************************************************************************)
(* Properties                                                              *)
(***************************************************************************)
HasTx == DOMAIN tx # {}

LastCall == calls[Len(calls)]

\* the transactions of the given kind handed to WalletProvider.sendTransaction
\* by the running operation: in flight, or logged at encryption or broadcast
HandedOver(kind) ==
    \/ HasTx /\ tx.kind = kind
    \/ \E i \in DOMAIN calls :
         /\ calls[i].call \in {"encryptTransaction", "sendTransaction"}
         /\ calls[i].kind = kind

Broadcasts(kind) ==
    {i \in DOMAIN calls : calls[i].call = "sendTransaction" /\ calls[i].kind = kind}

TxsOfKind(kind) ==
    (IF HasTx /\ tx.kind = kind THEN {tx.tansaction} ELSE {})
    \cup {calls[i].tansaction : i \in Broadcasts(kind)}

RouteMatchesFlags(t) ==
    LET inputIsNative  == loc.inputTokenInfo.isNative
        outputIsNative == loc.outputTokenInfo.isNative
        functionName   == t.data.functionName
    IN  /\ t.to = config[params.chainName].uniswapV2Router
        /\ t.data.args.to = WalletAddress
        /\ (inputIsNative /\ ~outputIsNative)
             => functionName = "swapExactETHForTokens"
                /\ t.value = NatToString(loc.amountIn)
        /\ (~inputIsNative /\ outputIsNative)
             => functionName = "swapExactTokensForETH" /\ t.value = "0"
        /\ (~inputIsNative /\ ~outputIsNative)
             => functionName = "swapExactTokensForTokens" /\ t.value = "0"

\* C1: a swap hands at most one router transaction to the provider, a swap
\* that returns has broadcast exactly one, and the router function and the
\* transaction value are those fixed by the two isNative flags; the
\* transaction targets the chain's router and names the wallet as recipient.
C1_RouteSelection ==
    op = "swap" =>
      /\ Cardinality(Broadcasts("router")) <= 1
      /\ Cardinality(TxsOfKind("router")) <= 1
      /\ pc = "done" => Cardinality(Broadcasts("router")) = 1
      /\ \A t \in TxsOfKind("router") : RouteMatchesFlags(t)

C1_Witness ==
    /\ op = "swap"
    /\ pc = "done"
    /\ loc.inputTokenInfo.isNative
    /\ ~loc.outputTokenInfo.isNative
    /\ \E i \in Broadcasts("router") :
         calls[i].tansaction.data.functionName = "swapExactETHForTokens"

AllowanceRead ==
    \E i \in DOMAIN calls :
      calls[i].call = "readContract" /\ calls[i].functionName = "allowance"

\* C2: on an ERC-20-input path an approve(router, amountIn) transaction on
\* the input token is handed to the provider exactly when the allowance read
\* is below amountIn; on the native-input path there is neither an allowance
\* read nor an approval.
C2_ApprovalGate ==
    op = "swap" =>
      /\ "currentAllowance" \in DOMAIN loc
           => (HandedOver("approve") <=> loc.currentAllowance < loc.amountIn)
      /\ HandedOver("approve") => AllowanceRead /\ ~loc.inputTokenInfo.isNative
      /\ \A t \in TxsOfKind("approve") :
           /\ t.to = loc.inputTokenInfo.address
           /\ t.data = [functionName |-> "approve",
                        args |-> [spender |-> config[params.chainName].uniswapV2Router,
                                  amount  |-> loc.amountIn]]
      /\ ("inputTokenInfo" \in DOMAIN loc /\ loc.inputTokenInfo.isNative)
           => ~AllowanceRead /\ ~HandedOver("approve")

C2_Witness ==
    /\ op = "swap"
    /\ pc = "done"
    /\ "currentAllowance" \in DOMAIN loc
    /\ loc.currentAllowance = loc.amountIn
    /\ ~HandedOver("approve")

\* C3: the slippage handed to calculateAmountOut is the caller's whenever
\* one is given in [0, 50] (0 included), and the default 0.5 percent only
\* when the request carries none.
C3_CallerSlippageUsed ==
    (op = "swap" /\ "slippage" \in DOMAIN loc) =>
      /\ params.slippage = Undefined => loc.slippage = Num(DEFAULT_SLIPPAGE)
      /\ (/\ params.slippage # Undefined
          /\ ~Get(params.slippage).nan
          /\ Get(params.slippage).bp >= 0
          /\ Get(params.slippage).bp <= 5000)
           => loc.slippage = Get(params.slippage)

\* C4: amountOut is the second element of what getAmountsOut returned and
\* amountOutMin = (amountOut * (10000 - bp)) div 10000 for a slippage of bp
\* whole basis points; amountOutMin never exceeds amountOut.
C4_AmountOutMin ==
    (op = "swap" /\ "amountOutMin" \in DOMAIN loc) =>
      /\ \E i \in DOMAIN calls :
           /\ calls[i].call = "readContract"
           /\ calls[i].functionName = "getAmountsOut"
           /\ ~calls[i].threw
           /\ loc.amountOut = calls[i].value[2]
      /\ loc.amountOutMin = (loc.amountOut * (10000 - loc.slippage.bp)) \div 10000
      /\ loc.amountOutMin <= loc.amountOut

IsPositiveNumber(amount) ==
    LET amountFloat == parseFloat(amount)
    IN  ~amountFloat.nan /\ amountFloat.sign > 0

\* a swap request that validation is to reject
BadSwapRequest(p) ==
    \/ p.inputToken = ""
    \/ p.outputToken = ""
    \/ toLowerCase(p.inputToken) = toLowerCase(p.outputToken)
    \/ p.amount = ""
    \/ ~IsPositiveNumber(p.amount)
    \/ /\ p.slippage # Undefined
       /\ ~Get(p.slippage).nan
       /\ (Get(p.slippage).bp < 0 \/ Get(p.slippage).bp > 5000)

\* C5: a swap whose tokens, amount or slippage are invalid fails before any
\* network call.
C5_InvalidSwapFailsFast ==
    (op = "swap" /\ BadSwapRequest(params)) => pc = "failed" /\ Len(calls) = 0

IsTxCall(c) == c.call \in {"encryptTransaction", "sendTransaction"}

\* C6: when the getAmountsOut read throws, the swap fails with the
\* QuoteUnavailable message, not with the text the read threw, and no
\* transaction was handed over by that swap.
C6_QuoteUnavailable ==
    (/\ op = "swap"
     /\ \E i \in DOMAIN calls :
          /\ calls[i].call = "readContract"
          /\ calls[i].functionName = "getAmountsOut"
          /\ calls[i].threw)
      => /\ pc = "failed"
         /\ err = QUOTE_UNAVAILABLE
         /\ err # LastCall.value
         /\ ~HasTx
         /\ \A i \in DOMAIN calls : ~IsTxCall(calls[i])

C6_Witness ==
    /\ op = "swap"
    /\ pc = "failed"
    /\ Len(calls) = 3
    /\ LastCall.functionName = "getAmountsOut"
    /\ LastCall.threw
    /\ LastCall.value = RPC_ERROR

\* C7: a router transaction whose broadcast returns no hash or '0x' makes the
\* swap fail with SwapNotSubmitted and is followed by no receipt wait; a
\* swap that returns has, as its last call, completed the receipt wait for
\* the hash of its router transaction.
C7_SwapNotSubmitted ==
    op = "swap" =>
      /\ \A i \in Broadcasts("router") :
           (~calls[i].threw /\ calls[i].value \in {"", "0x"})
             => /\ pc = "failed"
                /\ err = "Swap transaction hash not received"
                /\ i = Len(calls)
      /\ pc = "done"
           => /\ Len(calls) >= 2
              /\ LastCall.call = "waitForTransactionReceipt"
              /\ ~LastCall.threw
              /\ LastCall.hash = result.txHash
              /\ Len(calls) - 1 \in Broadcasts("router")
              /\ calls[Len(calls) - 1].value = result.txHash

C7_Witness ==
    /\ op = "swap"
    /\ pc = "failed"
    /\ err = "Swap transaction hash not received"
    /\ LastCall.call = "sendTransaction"
    /\ LastCall.value = "0x"

EncryptionRequired == biteConfig = "automatic" \/ params.isBite = Some(TRUE)

\* C8: every transaction the provider broadcasts is encrypted exactly when
\* the mode is automatic or the request's flag is true; the encrypted
\* transaction takes its 'to' and 'data' from the encryption and its value,
\* gas and gasPrice from the original, the clear one is the original.
C8_EncryptionDecision ==
    \A i \in DOMAIN calls :
      /\ calls[i].call = "encryptTransaction" => EncryptionRequired
      /\ calls[i].call = "sendTransaction" =>
           /\ calls[i].encrypted <=> EncryptionRequired
           /\ calls[i].encrypted
                => /\ i > 1
                   /\ calls[i - 1].call = "encryptTransaction"
                   /\ ~calls[i - 1].threw
                   /\ calls[i - 1].tx.to = calls[i].tansaction.to
                   /\ calls[i - 1].tx.data = calls[i].tansaction.data
                   /\ calls[i].tx.to = calls[i - 1].value.to
                   /\ calls[i].tx.data = calls[i - 1].value.data
           /\ ~calls[i].encrypted
                => /\ i > 1 => calls[i - 1].call # "encryptTransaction"
                   /\ calls[i].tx.to = calls[i].tansaction.to
                   /\ calls[i].tx.data = calls[i].tansaction.data
           /\ calls[i].tx.value = calls[i].tansaction.value
           /\ calls[i].tx.gas = calls[i].tansaction.gas
           /\ calls[i].tx.gasPrice = calls[i].tansaction.gasPrice

C8_Witness ==
    /\ op = "swap"
    /\ biteConfig = "manual"
    /\ params.isBite = Some(TRUE)
    /\ \E i \in DOMAIN calls :
         /\ calls[i].call = "sendTransaction"
         /\ calls[i].kind = "approve"
         /\ calls[i].encrypted

\* C9: the isBite of a returned TransferResult or SwapResult is true exactly
\* when the transaction of that transfer or swap was broadcast encrypted.
C9_ResultReportsEncryption ==
    pc = "done" =>
      \A i \in DOMAIN calls :
        (calls[i].call = "sendTransaction" /\ calls[i].kind # "approve")
          => (result.isBite = Some(TRUE) <=> calls[i].encrypted)

\* C10: when the encryption collaborator throws, the operation fails with
\* "Failed to encrypt transaction: " followed by the original message, and
\* nothing is broadcast after it.
C10_EncryptionFailed ==
    \A i \in DOMAIN calls :
      (calls[i].call = "encryptTransaction" /\ calls[i].threw)
        => /\ pc = "failed"
           /\ i = Len(calls)
           /\ startsWith(err, "Failed to encrypt transaction: ")
           /\ calls[i].value.type \in {"Error", "string"}
                => err = "Failed to encrypt transaction: " \o calls[i].value.message

C10_Witness ==
    /\ pc = "failed"
    /\ Len(calls) > 0
    /\ LastCall.call = "encryptTransaction"
    /\ LastCall.threw
    /\ LastCall.value.type = "Error"
    /\ LastCall.kind = "router"

ReceiptWaits ==
    {i \in DOMAIN calls : calls[i].call = "waitForTransactionReceipt"}

\* C11: a transfer, native or ERC-20, whose broadcast returns no hash or
\* '0x' fails, returns no result and is followed by no receipt wait.
C11_TransactionNotSubmitted ==
    op = "transfer" =>
      \A i \in DOMAIN calls :
        (/\ calls[i].call = "sendTransaction"
         /\ ~calls[i].threw
         /\ calls[i].value \in {"", "0x"})
          => /\ pc = "failed"
             /\ err = "Get transaction hash failed"
             /\ DOMAIN result = {}
             /\ i = Len(calls)

\* C12: an ERC-20 transfer that returns has, as its last call, completed the
\* receipt wait for the hash of its broadcast; a native transfer returns
\* right after its broadcast and never waits for a receipt.
C12_ReceiptAsymmetry ==
    (op = "transfer" /\ "native" \in DOMAIN loc) =>
      /\ loc.native => ReceiptWaits = {}
      /\ (pc = "done" /\ loc.native)
           => /\ LastCall.call = "sendTransaction"
              /\ LastCall.kind = "transfer_native"
              /\ ~LastCall.threw
      /\ (pc = "done" /\ ~loc.native)
           => /\ Len(calls) >= 2
              /\ LastCall.call = "waitForTransactionReceipt"
              /\ ~LastCall.threw
              /\ LastCall.hash = result.txHash
              /\ calls[Len(calls) - 1].call = "sendTransaction"
              /\ calls[Len(calls) - 1].kind = "transfer_erc20"
              /\ calls[Len(calls) - 1].value = result.txHash

C12_Witness ==
    /\ op = "transfer"
    /\ pc = "done"
    /\ ~loc.native
    /\ LastCall.call = "waitForTransactionReceipt"

TransferValidationErrors ==
    {"To address is required", "Amount must be greater than 0",
     "Amount cannot be negative"}

\* the amount is given and parses to a number of the given sign
AmountHasSign(amount, sign) ==
    /\ amount # Undefined
    /\ ~parseFloat(Get(amount)).nan
    /\ parseFloat(Get(amount)).sign = sign

\* C13: on a supported chain a transfer without recipient, with an amount
\* that parses to 0 or with one that parses to a negative number fails with
\* its own message before any network call; an absent or a positive amount
\* passes validation.
C13_TransferValidation ==
    (op = "transfer" /\ params.chainName \in DOMAIN config) =>
      /\ err \in TransferValidationErrors => pc = "failed" /\ Len(calls) = 0
      /\ (pc = "failed" /\ Len(calls) = 0)
           => /\ Falsy(params.toAddress) => err = "To address is required"
              /\ (~Falsy(params.toAddress) /\ AmountHasSign(params.amount, 0))
                   => err = "Amount must be greater than 0"
              /\ (~Falsy(params.toAddress) /\ AmountHasSign(params.amount, -1))
                   => err = "Amount cannot be negative"
              /\ (/\ ~Falsy(params.toAddress)
                  /\ (params.amount = Undefined \/ AmountHasSign(params.amount, 1)))
                   => err \notin TransferValidationErrors
      /\ ~(pc = "failed" /\ Len(calls) = 0)
           => /\ ~AmountHasSign(params.amount, 0)
              /\ ~AmountHasSign(params.amount, -1)

C13_Witness ==
    /\ op = "transfer"
    /\ pc = "failed"
    /\ Len(calls) = 0
    /\ params.chainName = FAIR_TESTNET
    /\ params.amount = Some("-1.0")
    /\ err = "Amount cannot be negative"

\* C14: a transfer or a swap on a chain name that is not in the registry
\* fails first, before validation and any network call, with the action's
\* own message "Chain '<name>' is not supported".
C14_UnsupportedChain ==
    (op \in {"swap", "transfer"} /\ params.chainName \notin DOMAIN config) =>
      /\ pc = "failed"
      /\ Len(calls) = 0
      /\ err \in {"Chain '" \o params.chainName \o "' is not supported",
                  "Chain '" \o params.chainName \o "' is not supported."}

\* a swap request on a registered chain that passed validation
ValidSwapRequest ==
    /\ op = "swap"
    /\ params.chainName \in DOMAIN config
    /\ swapValidateAndNormalizeParams(params) = ""

NativeSymbol(chainName) == config[chainName].nativeToken

WrappedNative(chainName) == "W" \o NativeSymbol(chainName)

\* the reference has the shape of an address: 0x and 40 more characters
CanonicalAddress(token) == startsWith(token, "0x") /\ Len(token) = 42

\* the reference is the chain's native symbol in some letter case, and the
\* chain's token table has the wrapped-native entry
IsNativeRef(token, chainName) ==
    /\ ~startsWith(token, "0x")
    /\ toLowerCase(token) = toLowerCase(NativeSymbol(chainName))
    /\ WrappedNative(chainName) \in DOMAIN config[chainName].tokens

InTokenTable(token, chainName) == token \in DOMAIN config[chainName].tokens

\* the reference resolves under one of the three rules of the spec
Resolvable(token, chainName) ==
    \/ CanonicalAddress(token)
    \/ IsNativeRef(token, chainName)
    \/ InTokenTable(token, chainName)

ResolvedAsWrappedNative(info, chainName) ==
    /\ info.isNative
    /\ info.address = config[chainName].tokens[WrappedNative(chainName)]

UnsupportedToken(token, chainName) ==
    "Token " \o token \o " is not supported on " \o chainName \o "."

\* C16: a swap with a token reference that is neither an address, nor the
\* native symbol, nor a symbol of the chain's token table fails at
\* resolution, before any network call, with "Token <ref> is not supported
\* on <chain>." for the first such reference.
C16_UnsupportedToken ==
    ValidSwapRequest =>
      /\ ~Resolvable(params.inputToken, params.chainName)
           => /\ pc = "failed"
              /\ Len(calls) = 0
              /\ err = UnsupportedToken(params.inputToken, params.chainName)
      /\ (/\ Resolvable(params.inputToken, params.chainName)
          /\ ~Resolvable(params.outputToken, params.chainName))
           => /\ pc = "failed"
              /\ Len(calls) = 0
              /\ err = UnsupportedToken(params.outputToken, params.chainName)

\* C17: a swap takes a token reference as the address itself only when the
\* reference is 0x followed by 40 characters; a 0x-prefixed reference of
\* another length goes through the symbol rules, and the swap fails with
\* UnsupportedToken when it is no symbol of the chain.
C17_AddressShape ==
    ValidSwapRequest =>
      /\ "inputTokenInfo" \in DOMAIN loc
           => /\ loc.inputTokenInfo.address = params.inputToken
                   => CanonicalAddress(params.inputToken)
              /\ loc.outputTokenInfo.address = params.outputToken
                   => CanonicalAddress(params.outputToken)
      /\ (/\ startsWith(params.inputToken, "0x")
          /\ ~Resolvable(params.inputToken, params.chainName))
           => /\ pc = "failed"
              /\ err = UnsupportedToken(params.inputToken, params.chainName)

\* the token reference collapses to the native symbol
CollapsesToNative(token, nativeToken) ==
    \/ Falsy(token)
    \/ token = Some("null")
    \/ toLowerCase(Get(token)) = toLowerCase(nativeToken)

\* C18: a transfer whose token reference is absent, empty, "null" or the
\* native symbol in any letter case does not look the token up, takes the
\* native branch, and its result names exactly the chain's native symbol.
C18_TokenCollapse ==
    (op = "transfer" /\ params.chainName \in DOMAIN config) =>
      /\ (/\ pc = "failed"
          /\ Len(calls) = 0
          /\ CollapsesToNative(params.token, NativeSymbol(params.chainName)))
           => err # "Token used not registered on the chain config"
      /\ (/\ "request" \in DOMAIN loc
          /\ CollapsesToNative(loc.request.token, NativeSymbol(params.chainName)))
           => /\ loc.native
              /\ loc.resp.token = NativeSymbol(params.chainName)
              /\ \A i \in DOMAIN calls : calls[i].call # "readContract"
              /\ HasTx => tx.kind = "transfer_native"
              /\ pc = "done" => result.token = NativeSymbol(params.chainName)

C18_Witness ==
    /\ op = "transfer"
    /\ pc = "done"
    /\ loc.request.token = Some("fair")
    /\ result.token = "FAIR"
    /\ LastCall.kind = "transfer_native"

TransferTxs == TxsOfKind("transfer_native") \cup TxsOfKind("transfer_erc20")

TransferBroadcasts == Broadcasts("transfer_native") \cup Broadcasts("transfer_erc20")

\* the recipient the request is normalized to
Recipient == formatAddress(loc.request.toAddress)

\* the decimals read from the token contract in the ERC-20 branch
DecimalsRead ==
    LET i == CHOOSE i \in DOMAIN calls :
               calls[i].call = "readContract" /\ calls[i].functionName = "decimals"
    IN  calls[i].value

\* C19: a transfer hands one transaction to the provider.  On the native
\* branch it goes to the recipient with the amount scaled by 10^18 as value
\* and with data only if the request carried data; on the ERC-20 branch it
\* goes to the token contract with value 0 and the data
\* transfer(recipient, amount scaled by 10^decimals).  The result echoes the
\* amount, with ".0" appended when it has no decimal point.
C19_TransferTxShape ==
    (op = "transfer" /\ "request" \in DOMAIN loc) =>
      /\ Cardinality(TransferTxs) <= 1
      /\ Cardinality(TransferBroadcasts) <= 1
      /\ pc = "done" => Cardinality(TransferBroadcasts) = 1
      /\ \A t \in TxsOfKind("transfer_native") :
           /\ t.to = Recipient
           /\ t.value = parseEther(Get(loc.request.amount)).digits
           /\ t.data # Undefined => loc.request.data # Undefined
      /\ \A t \in TxsOfKind("transfer_erc20") :
           /\ t.to = config[params.chainName].tokens[Get(loc.request.token)]
           /\ t.value = "0"
           /\ t.data = [functionName |-> "transfer",
                        args |-> [to     |-> Recipient,
                                  amount |-> parseUnits(Get(loc.request.amount),
                                                        DecimalsRead).digits]]
      /\ pc = "done"
           => result.amount = IF includes(Get(loc.request.amount), ".")
                              THEN Get(loc.request.amount)
                              ELSE Get(loc.request.amount) \o ".0"

\* C20: the amount of a native-token balance query is the formatted native
\* balance of the account the request was normalized to, the address the
\* response echoes, whether that is the wallet's own or another account.
C20_NativeBalanceOfAddress ==
    (op = "getBalance" /\ pc = "done" /\ loc.native) =>
      /\ result.address = params.address
      /\ LastCall.call = "getBalance"
      /\ LastCall.address = result.address
      /\ result.balance.amount = formatUnits(LastCall.value, 18)

\* C21: getBalance's normalization always yields an address: the wallet's
\* own when the supplied address is absent, empty, "null", "undefined", a
\* token symbol of the chain or any other string that does not start with
\* 0x, and the supplied string itself whenever it starts with 0x; an empty
\* chain name becomes 'fair-testnet'.
C21_AddressNormalization ==
    op = "getBalance" =>
      /\ params.chainName = IF loc.request.chainName = "" THEN FAIR_TESTNET
                            ELSE loc.request.chainName
      /\ params.address =
           IF /\ loc.request.address # Undefined
              /\ startsWith(Get(loc.request.address), "0x")
           THEN Get(loc.request.address)
           ELSE WalletAddress

\* C23: in a completed swap the amount quoted and sent to the router is the
\* request's decimal amount scaled by the decimals read from the resolved
\* input token, and the reported amountOut is the quoted raw output
\* formatted with the decimals read from the resolved output token.
C23_DecimalsPerToken ==
    (op = "swap" /\ pc = "done") =>
      LET input  == resolveTokenAddress(params.inputToken, params.chainName).val
          output == resolveTokenAddress(params.outputToken, params.chainName).val
          amountIn == BigIntValue(parseUnits(params.amount, calls[1].value).digits)
      IN  /\ calls[1].call = "readContract" /\ calls[1].functionName = "decimals"
          /\ calls[1].address = input.address
          /\ calls[2].call = "readContract" /\ calls[2].functionName = "decimals"
          /\ calls[2].address = output.address
          /\ calls[3].functionName = "getAmountsOut"
          /\ calls[3].args[1] = amountIn
          /\ \A t \in TxsOfKind("router") :
                IF t.data.functionName = "swapExactETHForTokens"
                THEN t.value = NatToString(amountIn)
                ELSE t.data.args.amountIn = amountIn
          /\ result.amountOut = formatUnits(calls[3].value[2], calls[2].value)

\* a swap has completed whose two tokens reported different decimals
C23_Witness ==
    /\ op = "swap" /\ pc = "done"
    /\ calls[1].value # calls[2].value
    /\ formatUnits(calls[3].value[2], calls[1].value)
         # formatUnits(calls[3].value[2], calls[2].value)

\* the fields of a chain entry other than its token table
ChainFields(entry) == (DOMAIN entry) \ {"tokens"}

\* the registry holds, per chain, the caller's fields and token entries over
\* the built-in ones
MergedAsConfigured ==
    LET defaultChains == DEFAULT_PLUGIN_CONFIG.chains
        userChains    == userConfig.chains
        entry(chains, chainName) ==
            IF chainName \in DOMAIN chains THEN chains[chainName] ELSE <<>>
        tokens(e) == IF "tokens" \in DOMAIN e THEN e.tokens ELSE <<>>
    IN  /\ DOMAIN config = (DOMAIN defaultChains) \cup (DOMAIN userChains)
        /\ \A chainName \in DOMAIN config :
             LET d == entry(defaultChains, chainName)
                 u == entry(userChains, chainName)
             IN  /\ \A f \in ChainFields(u) : config[chainName][f] = u[f]
                 /\ \A f \in ChainFields(d) \ ChainFields(u) :
                      config[chainName][f] = d[f]
                 /\ DOMAIN config[chainName].tokens
                      = (DOMAIN tokens(d)) \cup (DOMAIN tokens(u))
                 /\ \A t \in DOMAIN tokens(u) :
                      config[chainName].tokens[t] = tokens(u)[t]
                 /\ \A t \in (DOMAIN tokens(d)) \ (DOMAIN tokens(u)) :
                      config[chainName].tokens[t] = tokens(d)[t]

\* every registered chain has a chainId and an rpc that are not empty
ChainsComplete ==
    \A chainName \in DOMAIN config :
      /\ "chainId" \in DOMAIN config[chainName] /\ config[chainName].chainId # ""
      /\ "rpc" \in DOMAIN config[chainName] /\ config[chainName].rpc # ""

\* C24: the registry is the merge of the built-in chains and the caller's
\* overrides; construction has failed unless every chain of it has a
\* non-empty chainId and rpc; and no step of getBalance, transfer or swap
\* changes the registry or the encryption mode.
C24_RegistryInvariant ==
    /\ [](/\ MergedAsConfigured
          /\ ~ChainsComplete => pc = "unconstructed"
          /\ pc = "unconstructed" => err # "")
    /\ [][config' = config /\ biteConfig' = biteConfig]_vars

\* an operation has completed on a provider constructed with overrides
C24_Witness ==
    /\ pc = "done"
    /\ config[FAIR_TESTNET].tokens.USDC # DEFAULT_CHAIN_CONFIG.tokens.USDC
    /\ USER_CHAIN \in DOMAIN config
    /\ ChainsComplete

\* C25: no swap gets past validation and token resolution with both resolved
\* tokens flagged native: a request on a supported chain whose two
\* references each name the native token has failed with the same-token
\* error.
C25_NeverBothNative ==
    op = "swap" =>
      /\ "inputTokenInfo" \in DOMAIN loc
           => ~(loc.inputTokenInfo.isNative /\ loc.outputTokenInfo.isNative)
      /\ (/\ params.chainName \in DOMAIN config
          /\ IsNativeRef(params.inputToken, params.chainName)
          /\ IsNativeRef(params.outputToken, params.chainName)
          /\ hasUniswap(params.chainName))
           => pc = "failed" /\ err = "Cannot swap the same token"

\* a swap of the native symbol for the native symbol in another letter case
\* has been rejected
C25_Witness ==
    /\ op = "swap" /\ pc = "failed" /\ err = "Cannot swap the same token"
    /\ params.inputToken # params.outputToken
    /\ resolveTokenAddress(params.inputToken, params.chainName).val.isNative
    /\ resolveTokenAddress(params.outputToken, params.chainName).val.isNative

\* the calls the swap made on the provider; the encryption of a transaction
\* is part of its sendTransaction
ProviderCalls == SelectSeq(calls, LAMBDA c : c.call # "encryptTransaction")

CallLabel(c) ==
    IF c.call = "readContract" THEN c.functionName
    ELSE IF c.call = "sendTransaction" THEN c.kind
    ELSE "receipt"

\* the allowance read returned less than amountIn
ApprovalNeeded ==
    \E i \in DOMAIN calls :
      /\ calls[i].call = "readContract" /\ calls[i].functionName = "allowance"
      /\ ~calls[i].threw
      /\ calls[i].value < loc.amountIn

SwapCallOrder ==
    IF loc.inputTokenInfo.isNative
    THEN <<"decimals", "decimals", "getAmountsOut", "router", "receipt">>
    ELSE IF ApprovalNeeded
    THEN <<"decimals", "decimals", "getAmountsOut", "allowance",
           "approve", "receipt", "router", "receipt">>
    ELSE <<"decimals", "decimals", "getAmountsOut", "allowance", "router", "receipt">>

\* C26: the calls of one swap are made one after the other, each after the
\* one before it has returned, in the order: decimals of the input token,
\* decimals of the output token, the quote, then for an ERC-20 input the
\* allowance read and, if the allowance is short, the approval and the wait
\* for its receipt, then the router transaction and the wait for its
\* receipt.
C26_CallOrder ==
    (op = "swap" /\ calls # <<>>) =>
      LET steps == ProviderCalls
          n     == Len(steps)
      IN  /\ n <= Len(SwapCallOrder)
          /\ \A i \in 1..n : CallLabel(steps[i]) = SwapCallOrder[i]
          /\ \A i \in 1..(n - 1) : ~steps[i].threw
          /\ steps[1].address = loc.inputTokenInfo.address
          /\ n >= 2 => steps[2].address = loc.outputTokenInfo.address
          /\ \A i \in 2..n :
                CallLabel(steps[i]) = "receipt" => steps[i].hash = steps[i - 1].value
          /\ \A i \in DOMAIN calls :
                (calls[i].call = "encryptTransaction" /\ i < Len(calls))
                  => /\ ~calls[i].threw
                     /\ calls[i + 1].call = "sendTransaction"
                     /\ calls[i + 1].kind = calls[i].kind
          /\ pc = "done" => n = Len(SwapCallOrder)
          /\ (HasTx /\ tx.kind = "router" /\ ApprovalNeeded)
                => /\ CallLabel(steps[n]) = "receipt" /\ ~steps[n].threw
                   /\ CallLabel(steps[n - 1]) = "approve"

\* a swap that needed an approval has completed
C26_Witness ==
    /\ op = "swap" /\ pc = "done"
    /\ ApprovalNeeded
    /\ Len(ProviderCalls) = 8

\* C27: once validateAndNormalizeParams has run, params.toAddress is the
\* address formatAddress resolves the request's recipient to, and that
\* address is the recipient of the result, the 'to' of the native
\* transaction and the first argument of the ERC-20 transfer.
C27_ToAddressNormalized ==
    (op = "transfer" /\ "request" \in DOMAIN loc) =>
      /\ params.toAddress = formatAddress(loc.request.toAddress)
      /\ loc.resp.recipient = formatAddress(loc.request.toAddress)
      /\ pc = "done" => result.recipient = formatAddress(loc.request.toAddress)
      /\ \A t \in TxsOfKind("transfer_native") :
           t.to = formatAddress(loc.request.toAddress)
      /\ \A t \in TxsOfKind("transfer_erc20") :
           t.data.args.to = formatAddress(loc.request.toAddress)

\* C28: on an address that is present and not empty, getBalance's
\* normalization yields what formatAddress, the recipient normalization of
\* transfer, yields for the same string.
C28_SameNormalization ==
    (op = "getBalance" /\ ~Falsy(loc.request.address))
      => params.address = formatAddress(loc.request.address)

\* C30: in a swap that has passed validation and token resolution the two
\* resolved addresses differ, and so do the two addresses of the path the
\* router is quoted and called with.
C30_DistinctPath ==
    (op = "swap" /\ "inputTokenInfo" \in DOMAIN loc) =>
      /\ loc.inputTokenInfo.address # loc.outputTokenInfo.address
      /\ \A i \in DOMAIN calls :
           (calls[i].call = "readContract" /\ calls[i].functionName = "getAmountsOut")
             => calls[i].args[2][1] # calls[i].args[2][2]
      /\ \A t \in TxsOfKind("router") : t.data.args.path[1] # t.data.args.path[2]

\* the last two runs of the approval gate
LastGate == Get(chain.lastGate)
PrevGate == Get(chain.prevGate)

TwoGateRuns == chain.lastGate # Undefined /\ chain.prevGate # Undefined

\* the approvals a call has put on the chain: the broadcasts of an approval
\* that returned the hash of a transaction
OnChainApprovals(log) ==
    {i \in DOMAIN log : /\ log[i].call = "sendTransaction"
                        /\ log[i].kind = "approve"
                        /\ ~log[i].threw
                        /\ UsableHash(log[i].value)}

ApprovalsOfBothCalls ==
    Cardinality(OnChainApprovals(calls)) + Cardinality(OnChainApprovals(parked.calls))

SubmitsRouter ==
    /\ parked' = parked
    /\ pc # "send_broadcast" /\ pc' = "send_broadcast"
    /\ tx'.kind = "router"
    /\ ~loc'.inputTokenInfo.isNative

\* C29 as stated: whenever a swap of an ERC-20 input submits its router
\* transaction, alone or interleaved with another swap of the wallet, the
\* router's allowance is at least the swap's amountIn.
C29_AllowanceCoversSwap ==
    [][(Followed /\ SubmitsRouter) => Get(chain'.allowance) >= loc'.amountIn]_vars

\* C29 amended: the allowance is at least amountIn at the submission of the
\* router transaction when no transaction of another call was executed
\* between the swap's allowance read and that submission.
C29_AllowanceCoversUndisturbedSwap ==
    [][(Followed /\ SubmitsRouter /\ "running" \notin chain'.dirty)
         => Get(chain'.allowance) >= loc'.amountIn]_vars

\* a swap submits its router transaction after its approval was confirmed,
\* while another swap of the wallet is under way
C29_Witness ==
    /\ Followed
    /\ op = "swap" /\ pc = "send_broadcast" /\ tx.kind = "router"
    /\ ApprovalNeeded
    /\ "running" \notin chain.dirty
    /\ parked.pc \notin {"idle", "done", "failed"}

====
